---- MODULE Spec2Model ----
(***************************************************************************)
(* Model of the runit crate: metric-prefixed numbers (src/src/number.rs)   *)
(* and unit-tagged quantities with their dimensional rules                 *)
(* (src/src/unit/mod.rs, src/src/unit/ops.rs, src/src/unit/units.rs).      *)
(*                                                                         *)
(* An f64 is modelled as an IEEE 754 binary64 value: a sign, a significand *)
(* below 2^53 and a power of two, plus the infinities and NaN.  Every      *)
(* operation rounds its exact result to the nearest such value, ties to    *)
(* even.                                                                   *)
(* A text is a sequence of one-character strings.                          *)
(***************************************************************************)
EXTENDS Integers, Sequences, FiniteSets, TLC

(***************************************************************************)
(* Natural numbers as sequences of limbs, the most significant first,      *)
(* without leading zeros; << >> is zero.                                   *)
(***************************************************************************)
Zeros(n) == [i \in 1..n |-> 0]

Max(a, b) == IF a >= b THEN a ELSE b
Min(a, b) == IF a <= b THEN a ELSE b

\* the positions of s that hold a non-zero limb
NonZero(s) == {i \in 1..Len(s) : s[i] # 0}
Least(S) == CHOOSE i \in S : \A j \in S : i <= j
Greatest(S) == CHOOSE i \in S : \A j \in S : i >= j

StripLead(s) ==
    IF s = Zeros(Len(s)) THEN << >> ELSE SubSeq(s, Least(NonZero(s)), Len(s))

StripTrail(s) ==
    IF s = Zeros(Len(s)) THEN << >> ELSE SubSeq(s, 1, Greatest(NonZero(s)))

Pad(s, n) == IF Len(s) >= n THEN s ELSE Zeros(n - Len(s)) \o s

\* -1, 0, 1 comparing the limbs of a and b from position i on
LexCmp(a, b, i) ==
    LET d == {j \in i..Len(a) : a[j] # b[j]}
    IN  IF d = {} THEN 0
        ELSE IF a[Least(d)] < b[Least(d)] THEN -1 ELSE 1

\* -1, 0, 1 as a < b, a = b, a > b
NatCmp(a, b) ==
    IF Len(a) < Len(b) THEN -1
    ELSE IF Len(a) > Len(b) THEN 1
    ELSE LexCmp(a, b, 1)

\* natural numbers are sequences of limbs in base 10^4, the most significant
\* first and << >> for zero; decimal digit strings are the same in base 10
Base == 10 * 10 * 10 * 10

\* the carry into limb i of a + b, for a and b of the same length: a
\* position below it makes a carry and every position between passes it on
CarryIn(base, a, b, i) ==
    \E j \in (i + 1)..Len(a) :
        /\ a[j] + b[j] >= base
        /\ \A k \in (i + 1)..(j - 1) : a[k] + b[k] = base - 1

AddLimbs(base, a, b) ==
    <<IF CarryIn(base, a, b, 0) THEN 1 ELSE 0>>
        \o [i \in 1..Len(a) |->
               (a[i] + b[i] + (IF CarryIn(base, a, b, i) THEN 1 ELSE 0)) % base]

AddIn(base, a, b) ==
    StripLead(AddLimbs(base, Pad(a, Len(b)), Pad(b, Len(a))))

\* the borrow out of limb i of a - b, for a >= b of the same length
BorrowIn(a, b, i) ==
    \E j \in (i + 1)..Len(a) :
        /\ a[j] < b[j]
        /\ \A k \in (i + 1)..(j - 1) : a[k] = b[k]

SubLimbs(base, a, b) ==
    [i \in 1..Len(a) |-> (a[i] - b[i] - (IF BorrowIn(a, b, i) THEN 1 ELSE 0) + base) % base]

\* a - b for a >= b
SubIn(base, a, b) ==
    StripLead(SubLimbs(base, Pad(a, Len(b)), Pad(b, Len(a))))

NatAdd(a, b) == AddIn(Base, a, b)
NatSub(a, b) == SubIn(Base, a, b)
DecAdd(a, b) == AddIn(10, a, b)
DecSub(a, b) == SubIn(10, a, b)

\* a * k for a limb k: the low limbs of the products plus their high limbs
NatMulLimb(a, k) ==
    NatAdd([i \in 1..Len(a) |-> (a[i] * k) % Base],
           [i \in 1..Len(a) |-> (a[i] * k) \div Base] \o <<0>>)

\* a * b, by halves of b
RECURSIVE MulHalves(_, _)
MulHalves(a, b) ==
    IF Len(b) = 0 THEN << >>
    ELSE IF Len(b) = 1 THEN NatMulLimb(a, b[1])
    ELSE LET h == Len(b) \div 2
         IN  NatAdd(MulHalves(a, SubSeq(b, 1, h)) \o Zeros(Len(b) - h),
                    MulHalves(a, SubSeq(b, h + 1, Len(b))))

\* a * b, the shorter factor taken limb by limb
NatMul(a, b) ==
    MulHalves(IF Len(a) >= Len(b) THEN a ELSE b, IF Len(a) >= Len(b) THEN b ELSE a)

\* the limb k = r div b and the rest r - b * k, for r < Base * b and a
\* divisor whose first limb is Base / 2 at least: the quotient of the two
\* leading limbs of r by the leading limb of b is k, k + 1 or k + 2
QuotLess(r, b, est, m1) ==
    IF NatCmp(m1, r) <= 0 THEN [q |-> <<est - 1>>, r |-> NatSub(r, m1)]
    ELSE [q |-> <<est - 2>>, r |-> NatSub(r, NatSub(m1, b))]

QuotTry(r, b, est, m0) ==
    IF NatCmp(m0, r) <= 0 THEN [q |-> <<est>>, r |-> NatSub(r, m0)]
    ELSE QuotLess(r, b, est, NatSub(m0, b))

QuotEst(r, b, est) == QuotTry(r, b, est, NatMulLimb(b, est))

QuotLead(r, b, t) == QuotEst(r, b, Min((t[1] * Base + t[2]) \div b[1], Base - 1))

QuotRem(r, b) == QuotLead(r, b, Pad(r, Len(b) + 1))

\* the long division of limbs lo..hi of a, entered with the rest r, by
\* quarters of the range
RECURSIVE DivRange(_, _, _, _, _)
DivRange(a, b, lo, hi, r) ==
    CASE lo > hi -> [q |-> << >>, r |-> r]
      [] lo = hi -> QuotRem(StripLead(r \o <<a[lo]>>), b)
      [] lo < hi ->
            LET w  == (hi - lo + 4) \div 4
                p1 == DivRange(a, b, lo, lo + w - 1, r)
                p2 == DivRange(a, b, lo + w, Min(hi, lo + 2 * w - 1), p1.r)
                p3 == DivRange(a, b, lo + 2 * w, Min(hi, lo + 3 * w - 1), p2.r)
                p4 == DivRange(a, b, lo + 3 * w, hi, p3.r)
            IN  [q |-> p1.q \o p2.q \o p3.q \o p4.q, r |-> p4.r]

\* quotient and remainder of a by b, for b > 0: both are scaled so that the
\* first limb of the divisor is Base / 2 at least, which leaves the quotient
DivBack(a, b, q) == [q |-> q, r |-> NatSub(a, NatMul(q, b))]

DivScaled(a, b, a2, b2) ==
    DivBack(a, b, StripLead(DivRange(a2, b2, Len(b2), Len(a2),
                                     StripLead(SubSeq(a2, 1, Len(b2) - 1))).q))

DivNorm(a, b, f) == DivScaled(a, b, Pad(NatMulLimb(a, f), Len(a) + 1), NatMulLimb(b, f))

NatDivMod(a, b) ==
    IF NatCmp(a, b) < 0 THEN [q |-> << >>, r |-> StripLead(a)]
    ELSE DivNorm(a, b, Base \div (b[1] + 1))

\* the decimal digits of a natural number, and the number of a digit string
Tens == <<1000, 100, 10, 1>>

ToDigits(a) ==
    StripLead([i \in 1..(4 * Len(a)) |-> (a[(i + 3) \div 4] \div Tens[((i - 1) % 4) + 1]) % 10])

FromDigits(d) ==
    LET n == (Len(d) + 3) \div 4
        p == Pad(d, 4 * n)
    IN  StripLead([i \in 1..n |->
                      1000 * p[4 * i - 3] + 100 * p[4 * i - 2] + 10 * p[4 * i - 1] + p[4 * i]])

\* the number of decimal digits of a > 0
DigitLen(a) == 4 * (Len(a) - 1) + Cardinality({t \in 1..4 : a[1] >= Tens[t]})

RECURSIVE DecToInt(_)
DecToInt(s) == IF s = << >> THEN 0 ELSE 10 * DecToInt(SubSeq(s, 1, Len(s) - 1)) + s[Len(s)]

RECURSIVE IntToDec(_)
IntToDec(n) == IF n = 0 THEN << >> ELSE IntToDec(n \div 10) \o <<n % 10>>

IntToNat(n) == FromDigits(IntToDec(n))

(***************************************************************************)
(* Powers of two and of five.                                              *)
(***************************************************************************)

\* <<b, b * f, ..., b * f^(n - 1)>> for a limb f
RECURSIVE Powers(_, _, _)
Powers(b, f, n) ==
    IF n = 1 THEN <<b>>
    ELSE LET h    == n \div 2
             left == Powers(b, f, h)
         IN  left \o Powers(NatMulLimb(left[h], f), f, n - h)

\* 2^0 .. 2^400 and 5^0 .. 5^400
Pow2Tab == Powers(<<1>>, 2, 401)
Pow5Tab == Powers(<<1>>, 5, Len(Pow2Tab))

\* the power k of a table of powers, beyond the table by products
RECURSIVE PowIn(_, _)
PowIn(tab, k) ==
    IF k < Len(tab) THEN tab[k + 1]
    ELSE NatMul(PowIn(tab, k - Len(tab) + 1), tab[Len(tab)])

Pow2(k) == PowIn(Pow2Tab, k)
Pow5(k) == PowIn(Pow5Tab, k)

\* the digit string of 10^k
DecPow10(k) == <<1>> \o Zeros(k)

Double(a) == NatAdd(a, a)

Odd(a) == a # << >> /\ a[Len(a)] % 2 = 1

\* the number of binary digits of a: 2^(BitLen - 1) <= a < 2^BitLen; a number
\* of n decimal digits is at least 2^low for low = floor((n - 1) * 3.3219)
\* and less than 2^(low + 5)
BitLen(a) ==
    IF a = << >> THEN 0
    ELSE LET low == ((DigitLen(a) - 1) * 33219) \div 10000
         IN  low + Cardinality({j \in 0..4 : NatCmp(Pow2(low + j), a) <= 0})

(***************************************************************************)
(* f64 values (IEEE 754 binary64).  A finite value is (-1)^neg * m * 2^e   *)
(* with the integer m written as a natural number: 2^52 <= m < 2^53 and    *)
(* MinExp < e <= MaxExp for a normal value, m < 2^52 and e = MinExp for a  *)
(* subnormal value and for zero (m = << >>).  Two finite values are the    *)
(* same float exactly when their records are equal.                        *)
(***************************************************************************)
MantBits == 53
MinExp == -1074
MaxExp == 971
FarBits == MantBits + 11

\* 2^52 and 2^53 in limbs
Two52 == <<4503, 5996, 2737, 496>>
Two53 == <<9007, 1992, 5474, 992>>

Fin(neg, m, e) == [k |-> "fin", neg |-> neg, m |-> m, e |-> e]
Inf(neg) == [k |-> "inf", neg |-> neg, m |-> << >>, e |-> 0]
NaN == [k |-> "nan", neg |-> FALSE, m |-> << >>, e |-> 0]
Zero(neg) == Fin(neg, << >>, MinExp)

IsNaN(a) == a.k = "nan"
IsInf(a) == a.k = "inf"
IsFinite(a) == a.k = "fin"
IsZero(a) == a.k = "fin" /\ a.m = << >>

\* the record of a rounded significand q <= 2^53 at exponent e >= MinExp
Finish(neg, q, e) ==
    IF q = Two53 THEN (IF e + 1 > MaxExp THEN Inf(neg) ELSE Fin(neg, Two52, e + 1))
    ELSE IF e > MaxExp THEN Inf(neg)
    ELSE Fin(neg, q, e)

\* the quotient q goes up when the rest is above the half (c > 0), or is the
\* half and q is odd or digits were dropped before
RoundUp(neg, q, e, sticky, c) ==
    Finish(neg, IF c > 0 \/ (c = 0 /\ (sticky \/ Odd(q))) THEN NatAdd(q, <<1>>) ELSE q, e)

\* the quotient qr.q of n by d = 2^s is rounded by the rest qr.r against
\* the half of d
RoundCut(neg, e, sticky, qr, d) ==
    RoundUp(neg, qr.q, e, sticky, NatCmp(Double(qr.r), d))

\* n is cut by the binary digits of d, or d is appended to it
RoundPow(neg, n, e, sticky, cut, d) ==
    IF cut THEN RoundCut(neg, e, sticky, NatDivMod(n, d), d)
    ELSE Fin(neg, NatMul(n, d), e)

\* n has L binary digits: s of them are cut when s > 0, and -s are
\* appended otherwise
RoundShift(neg, n, e, sticky, L, s) ==
    IF e + L > MaxExp + MantBits THEN Inf(neg)
    ELSE IF s > L + 1 THEN Zero(neg)
    ELSE RoundPow(neg, n, e + s, sticky, s > 0, Pow2(IF s > 0 THEN s ELSE 0 - s))

RoundLen(neg, n, e, sticky, L) ==
    RoundShift(neg, n, e, sticky, L, Max(L - MantBits, MinExp - e))

RoundNat(neg, n, e, sticky) ==
    IF n = << >> THEN Zero(neg) ELSE RoundLen(neg, n, e, sticky, BitLen(n))

\* the f64 nearest to (-1)^neg * (n + t) * 2^e, ties to even, where 0 < t < 1
\* when sticky (n then has more than MantBits + 1 binary digits) and t = 0
\* otherwise
RoundBin(neg, n0, e, sticky) == RoundNat(neg, StripLead(n0), e, sticky)

\* the digits p without the last cut of them, at the exponent -k
DecCut(neg, cut, k, p) ==
    RoundBin(neg, FromDigits(SubSeq(p, 1, Len(p) - cut)), 0 - k,
             SubSeq(p, Len(p) - cut + 1, Len(p)) # Zeros(cut))

DecShift(neg, m, x, k) ==
    DecCut(neg, Max(0, 0 - x), k,
           IF x >= 0 THEN m \o Zeros(x) ELSE ToDigits(NatMul(FromDigits(m), Pow2(k))))

DecDigits(neg, m, x) ==
    IF m = << >> THEN Zero(neg)
    ELSE IF x + Len(m) - 1 > 309 THEN Inf(neg)
    ELSE IF x + Len(m) - 1 < -325 THEN Zero(neg)
    ELSE DecShift(neg, m, x, IF x >= 0 THEN 0
                             ELSE Max(0, 60 + 4 * (0 - x) - 3 * (Len(m) - 1)))

\* the f64 nearest to the decimal (-1)^neg * m * 10^x (the parse of a
\* literal): above 10^310 it is infinite and below 10^-325 zero; for x < 0
\* the quotient of m * 2^k by 10^(-x) is rounded, k making it 2^60 at least
DecF(neg, m0, x) == DecDigits(neg, StripLead(m0), x)

\* the decimal literal with digits m and last digit at 10^x
Dec(m, x) == DecF(FALSE, m, x)

F64Neg(a) == IF IsNaN(a) THEN NaN ELSE [a EXCEPT !.neg = ~a.neg]
F64Abs(a) == IF IsNaN(a) THEN NaN ELSE [a EXCEPT !.neg = FALSE]

\* -1, 0, 1 comparing the magnitudes of two finite values
MagCmp(a, b) ==
    IF a.e < b.e THEN -1
    ELSE IF a.e > b.e THEN 1
    ELSE NatCmp(a.m, b.m)

\* f64::partial_cmp: "Less", "Equal", "Greater", or "None" when a NaN is involved
F64Cmp(a, b) ==
    IF IsNaN(a) \/ IsNaN(b) THEN "None"
    ELSE IF IsInf(a) /\ IsInf(b) THEN
        (IF a.neg = b.neg THEN "Equal" ELSE IF a.neg THEN "Less" ELSE "Greater")
    ELSE IF IsInf(a) THEN (IF a.neg THEN "Less" ELSE "Greater")
    ELSE IF IsInf(b) THEN (IF b.neg THEN "Greater" ELSE "Less")
    ELSE IF IsZero(a) /\ IsZero(b) THEN "Equal"
    ELSE IF IsZero(a) THEN (IF b.neg THEN "Greater" ELSE "Less")
    ELSE IF IsZero(b) THEN (IF a.neg THEN "Less" ELSE "Greater")
    ELSE IF a.neg # b.neg THEN (IF a.neg THEN "Less" ELSE "Greater")
    ELSE LET c == MagCmp(a, b)
         IN  IF c = 0 THEN "Equal"
             ELSE IF (c < 0) = (~a.neg) THEN "Less" ELSE "Greater"

F64Eq(a, b) == F64Cmp(a, b) = "Equal"
F64Lt(a, b) == F64Cmp(a, b) = "Less"
F64Le(a, b) == F64Cmp(a, b) \in {"Less", "Equal"}
F64Ge(a, b) == F64Cmp(a, b) \in {"Greater", "Equal"}

\* sign, significand and exponent of a sum that lo only makes inexact
FarSum(hi, same) ==
    [neg |-> hi.neg, m |-> NatSub(NatMul(hi.m, <<4>>), IF same THEN << >> ELSE <<1>>),
     e |-> hi.e - 2, sticky |-> TRUE]

\* the sum of the aligned significands mh and ml of opposite signs: c
\* compares them
DiffSum(neg, e, mh, ml, c) ==
    [neg |-> c # 0 /\ neg = (c > 0),
     m |-> NatSub(IF c > 0 THEN mh ELSE ml, IF c > 0 THEN ml ELSE mh),
     e |-> e, sticky |-> FALSE]

NearSum(hi, lo, mh) ==
    IF hi.neg = lo.neg
    THEN [neg |-> hi.neg, m |-> NatAdd(mh, lo.m), e |-> lo.e, sticky |-> FALSE]
    ELSE DiffSum(hi.neg, lo.e, mh, lo.m, NatCmp(mh, lo.m))

RoundSum(p) == RoundBin(p.neg, p.m, p.e, p.sticky)

\* the sum of two finite non-zero values, hi the one of the greater exponent:
\* exact when the exponents are within FarBits of each other; otherwise lo
\* is less than a quarter of the last place of hi and only makes the sum
\* inexact
AddFinite(hi, lo) ==
    RoundSum(IF hi.e - lo.e > FarBits THEN FarSum(hi, hi.neg = lo.neg)
             ELSE NearSum(hi, lo, NatMul(hi.m, Pow2(hi.e - lo.e))))

F64Add(a, b) ==
    IF IsNaN(a) \/ IsNaN(b) THEN NaN
    ELSE IF IsInf(a) /\ IsInf(b) THEN (IF a.neg = b.neg THEN a ELSE NaN)
    ELSE IF IsInf(a) THEN a
    ELSE IF IsInf(b) THEN b
    ELSE IF IsZero(a) /\ IsZero(b) THEN Zero(a.neg /\ b.neg)
    ELSE IF IsZero(a) THEN b
    ELSE IF IsZero(b) THEN a
    ELSE AddFinite(IF a.e >= b.e THEN a ELSE b, IF a.e >= b.e THEN b ELSE a)

F64Sub(a, b) == F64Add(a, F64Neg(b))

F64Mul(a, b) ==
    IF IsNaN(a) \/ IsNaN(b) THEN NaN
    ELSE IF (IsInf(a) /\ IsZero(b)) \/ (IsZero(a) /\ IsInf(b)) THEN NaN
    ELSE IF IsInf(a) \/ IsInf(b) THEN Inf(a.neg # b.neg)
    ELSE IF IsZero(a) \/ IsZero(b) THEN Zero(a.neg # b.neg)
    ELSE RoundBin(a.neg # b.neg, NatMul(a.m, b.m), a.e + b.e, FALSE)

\* the number of binary digits of the significand of a finite value
MantLen(a) == IF a.e > MinExp THEN MantBits ELSE BitLen(a.m)

\* the quotient of a.m * 2^k by b.m is rounded, k making it 2^(MantBits + 2)
\* at least
DivRound(neg, e, qr) == RoundBin(neg, qr.q, e, qr.r # << >>)

DivShift(a, b, k) ==
    DivRound(a.neg # b.neg, a.e - b.e - k, NatDivMod(NatMul(a.m, Pow2(k)), b.m))

F64Div(a, b) ==
    IF IsNaN(a) \/ IsNaN(b) THEN NaN
    ELSE IF IsInf(a) /\ IsInf(b) THEN NaN
    ELSE IF IsZero(a) /\ IsZero(b) THEN NaN
    ELSE IF IsInf(a) \/ IsZero(b) THEN Inf(a.neg # b.neg)
    ELSE IF IsInf(b) \/ IsZero(a) THEN Zero(a.neg # b.neg)
    ELSE DivShift(a, b, Max(0, MantBits + 3 + MantLen(b) - MantLen(a)))

(***************************************************************************)
(* Suffix and Number (src/src/number.rs).                                  *)
(***************************************************************************)
Suffix == {"Giga", "Mega", "Kilo", "None", "Milli", "Micro", "Nano", "Pico"}

\* the power of ten of Suffix::factor
FactorExp(s) ==
    CASE s = "Giga"  -> 9
      [] s = "Mega"  -> 6
      [] s = "Kilo"  -> 3
      [] s = "None"  -> 0
      [] s = "Milli" -> -3
      [] s = "Micro" -> -6
      [] s = "Nano"  -> -9
      [] s = "Pico"  -> -12

\* Suffix::factor: the float of the literal 1eN in the arm of the prefix
factor(s) == Dec(<<1>>, FactorExp(s))

\* the symbols with Mega written in lower case
name_mega_lower(s) ==
    CASE s = "Giga"  -> <<"G">>
      [] s = "Mega"  -> <<"m">>
      [] s = "Kilo"  -> <<"K">>
      [] s = "None"  -> << >>
      [] s = "Milli" -> <<"m">>
      [] s = "Micro" -> <<"u">>
      [] s = "Nano"  -> <<"n">>
      [] s = "Pico"  -> <<"p">>

name(s) ==
    CASE s = "Giga"  -> <<"G">>
      [] s = "Mega"  -> <<"M">>
      [] s = "Kilo"  -> <<"K">>
      [] s = "None"  -> << >>
      [] s = "Milli" -> <<"m">>
      [] s = "Micro" -> <<"u">>
      [] s = "Nano"  -> <<"n">>
      [] s = "Pico"  -> <<"p">>

\* Result<Suffix, ()>
SuffixOk(p) == [ok |-> TRUE, suffix |-> p]
SuffixErr == [ok |-> FALSE]

\* impl FromStr for Suffix
Suffix_from_str(s) ==
    CASE s = <<"G">> -> SuffixOk("Giga")
      [] s = <<"M">> -> SuffixOk("Mega")
      [] s = <<"K">> -> SuffixOk("Kilo")
      [] s = << >>   -> SuffixOk("None")
      [] s = <<"m">> -> SuffixOk("Milli")
      [] s = <<"u">> -> SuffixOk("Micro")
      [] s = <<"n">> -> SuffixOk("Nano")
      [] s = <<"p">> -> SuffixOk("Pico")
      [] OTHER       -> SuffixErr

\* the entries (Suffix, 1e9), (Suffix, 1e6), ..., each literal 1eN by its N
PrefixValueLiterals ==
    << <<"Giga",  9>>,
       <<"Mega",  6>>,
       <<"Kilo",  3>>,
       <<"None",  0>>,
       <<"Milli", -3>>,
       <<"Micro", -6>>,
       <<"Nano",  -9>>,
       <<"Pico",  -12>> >>

PREFIX_VALUE_TABLE ==
    [i \in 1..Len(PrefixValueLiterals) |->
        <<PrefixValueLiterals[i][1], Dec(<<1>>, PrefixValueLiterals[i][2])>>]

\* the table without the lower-case kilo symbol
PREFIX_TABLE_upper_kilo_only ==
    << <<"Giga",  <<"G">> >>,
       <<"Mega",  <<"M">> >>,
       <<"Kilo",  <<"K">> >>,
       <<"Milli", <<"m">> >>,
       <<"Micro", <<"u">> >>,
       <<"Nano",  <<"n">> >>,
       <<"Pico",  <<"p">> >> >>

PREFIX_TABLE ==
    << <<"Giga",  <<"G">> >>,
       <<"Mega",  <<"M">> >>,
       <<"Kilo",  <<"K">> >>,
       <<"Kilo",  <<"k">> >>,
       <<"Milli", <<"m">> >>,
       <<"Micro", <<"u">> >>,
       <<"Nano",  <<"n">> >>,
       <<"Pico",  <<"p">> >> >>

new(value, suffix) == [value |-> value, suffix |-> suffix]

to_f64(n) == F64Mul(n.value, factor(n.suffix))

\* from_f64 with the threshold test written as a strict comparison
RECURSIVE from_f64_scan_strict(_, _, _)
from_f64_scan_strict(val, abs, table) ==
    IF table = << >> THEN new(val, "None")
    ELSE IF F64Lt(Head(table)[2], abs)
         THEN new(F64Div(val, Head(table)[2]), Head(table)[1])
         ELSE from_f64_scan_strict(val, abs, Tail(table))

\* the loop over the entries (suffix, factor) of the table
RECURSIVE from_f64_scan(_, _, _)
from_f64_scan(val, abs, table) ==
    IF table = << >> THEN new(val, "None")
    ELSE IF F64Ge(abs, Head(table)[2])
         THEN new(F64Div(val, Head(table)[2]), Head(table)[1])
         ELSE from_f64_scan(val, abs, Tail(table))

from_f64(val) == from_f64_scan(val, F64Abs(val), PREFIX_VALUE_TABLE)

zero == new(Zero(FALSE), "None")

\* an addition of the stored mantissas under the left operand's prefix
add_mantissas(a, b) == new(F64Add(a.value, b.value), a.suffix)

\* a product that keeps the left operand's prefix instead of renormalizing
mul_keep_prefix(a, b) ==
    new(F64Div(F64Mul(to_f64(a), to_f64(b)), factor(a.suffix)), a.suffix)

\* a division that special-cases a zero divisor and returns zero
div_zero_guarded(a, b) ==
    IF IsZero(to_f64(b)) THEN zero ELSE from_f64(F64Div(to_f64(a), to_f64(b)))

add(a, b) == from_f64(F64Add(to_f64(a), to_f64(b)))
sub(a, b) == from_f64(F64Sub(to_f64(a), to_f64(b)))
mul(a, b) == from_f64(F64Mul(to_f64(a), to_f64(b)))
div(a, b) == from_f64(F64Div(to_f64(a), to_f64(b)))

\* impl Add<f64> for Number, ...
add_f64(a, f) == from_f64(F64Add(to_f64(a), f))
sub_f64(a, f) == from_f64(F64Sub(to_f64(a), f))
mul_f64(a, f) == from_f64(F64Mul(to_f64(a), f))
div_f64(a, f) == from_f64(F64Div(to_f64(a), f))

\* impl Add<Number> for f64, ...
f64_add(f, b) == from_f64(F64Add(f, to_f64(b)))
f64_sub(f, b) == from_f64(F64Sub(f, to_f64(b)))
f64_mul(f, b) == from_f64(F64Mul(f, to_f64(b)))
f64_div(f, b) == from_f64(F64Div(f, to_f64(b)))

neg(a) == new(F64Neg(a.value), a.suffix)

\* #[derive(PartialEq)] on Number: field by field
eq(a, b) == F64Eq(a.value, b.value) /\ a.suffix = b.suffix

\* impl PartialEq<f64> for Number
eq_f64(a, f) == F64Eq(to_f64(a), f)

\* an ordering of the stored mantissas, ignoring the prefixes
partial_cmp_mantissa(a, b) == F64Cmp(a.value, b.value)

partial_cmp(a, b) == F64Cmp(to_f64(a), to_f64(b))

\* Ord::cmp unwraps partial_cmp: it panics when a NaN is involved
cmp(a, b) == IF partial_cmp(a, b) = "None" THEN "panic" ELSE partial_cmp(a, b)

\* the f64 of an integer below 2^53
FromNat(sign, n) == RoundBin(sign, n, 0, FALSE)

\* not finite, zero, or without binary digits after the point
IsWhole(a) == ~IsFinite(a) \/ a.m = << >> \/ a.e >= 0

\* integer part q and the rest r (in units of 2^e) of a finite value with
\* e < 0
FracSplit(a) ==
    IF 0 - a.e > MantBits THEN [q |-> << >>, r |-> a.m]
    ELSE NatDivMod(a.m, Pow2(0 - a.e))

IsIntegral(a) == IsWhole(a) \/ FracSplit(a).r = << >>

\* a value split as qr goes to its integer part, or to the next integer
\* away from zero when up
RoundFrac(a, qr, up) ==
    IF qr.r = << >> THEN a
    ELSE FromNat(a.neg, NatAdd(qr.q, IF up THEN <<1>> ELSE << >>))

RoundHalf(a, qr) == RoundFrac(a, qr, NatCmp(Double(qr.r), Pow2(0 - a.e)) >= 0)

\* f64::floor, f64::ceil, and f64::round (halves go away from zero); the sign
\* of the argument is kept when the result is zero
F64Floor(a) == IF IsWhole(a) THEN a ELSE RoundFrac(a, FracSplit(a), a.neg)

F64Ceil(a) == IF IsWhole(a) THEN a ELSE RoundFrac(a, FracSplit(a), ~a.neg)

F64Round(a) == IF IsWhole(a) THEN a ELSE RoundHalf(a, FracSplit(a))

\* a transform that renormalizes its result
ceil_renormalized(a) == from_f64(F64Ceil(to_f64(a)))

\* Number::abs, ceil, floor, round: on the stored value, the suffix is kept
abs(a) == new(F64Abs(a.value), a.suffix)
ceil(a) == new(F64Ceil(a.value), a.suffix)
floor(a) == new(F64Floor(a.value), a.suffix)
round(a) == new(F64Round(a.value), a.suffix)

\* `value as f64` of an i32 or u32
as_f64(n) == DecF(n < 0, IntToDec(IF n < 0 THEN 0 - n ELSE n), 0)

\* a conversion that normalizes the value it is given
from_normalizing(value) == from_f64(value)

\* impl From<f64 / f32 / u32 / i32> for Number, after `value as f64`
from(value) == new(value, "None")

\* the last j digits of v
LowDigits(v, j) == StripLead(SubSeq(v, Len(v) - j + 1, Len(v)))

InBound(incl, c) == c < 0 \/ (incl /\ c = 0)

\* whether the j low digits of v may be dropped, and whether they may be
\* filled up to 10^j
DownOk(incl, v, dn, j) == InBound(incl, NatCmp(LowDigits(v, j), dn))
UpOk(incl, v, up, j) == InBound(incl, NatCmp(DecSub(DecPow10(j), LowDigits(v, j)), up))

ShortTrail(x, d) == [m |-> StripTrail(d), x |-> x + (Len(d) - Len(StripTrail(d)))]

ShortPick(x, f, goUp) == ShortTrail(x, IF goUp THEN DecAdd(f, <<1>>) ELSE f)

\* j digits are cut: up when that is allowed and down is not, or is farther
ShortCut(x, incl, v, up, dn, j) ==
    ShortPick(x + j, StripLead(SubSeq(v, 1, Len(v) - j)),
              /\ UpOk(incl, v, up, j)
              /\ \/ ~DownOk(incl, v, dn, j)
                 \/ NatCmp(DecAdd(LowDigits(v, j), LowDigits(v, j)), DecPow10(j)) >= 0)

\* v, up and dn in decimal digits: the most digits are cut that leave the
\* result within the bounds
ShortDigits(x, incl, v, up, dn) ==
    ShortCut(x, incl, v, up, dn,
             Greatest({i \in 0..(Len(v) - 1) : DownOk(incl, v, dn, i) \/ UpOk(incl, v, up, i)}))

ShortBounds(a, x, v0, up, dn) ==
    ShortDigits(x, ~Odd(a.m), Pad(ToDigits(v0), DigitLen(NatAdd(v0, up))),
                ToDigits(up), ToDigits(dn))

\* the value 4 * m * p, the half distance 2 * p to the next float, and to
\* the previous one, which is p at a power of two
ShortScaled(a, x, p) ==
    ShortBounds(a, x, NatMul(NatMul(a.m, <<4>>), p), Double(p),
                IF a.m = Two52 /\ a.e > MinExp THEN p ELSE Double(p))

\* the shortest decimal m * 10^x that reads back as the finite non-zero a,
\* the nearest to a among the shortest (flt2dec's format_shortest).  In
\* units of p / 4 * 10^x the value is v, the values that read back as a lie
\* from v - dn to v + up (the ends included when the significand is even),
\* and a candidate keeps the digits of v above the last j, rounded down or up
ShortestDec(a) ==
    ShortScaled(a, Min(0, a.e - 2), IF a.e >= 2 THEN Pow2(a.e - 2) ELSE Pow5(2 - a.e))

(***************************************************************************)
(* Texts: Display and FromStr of f64 (the standard library's, as used by   *)
(* number.rs) and of Number.                                               *)
(***************************************************************************)
DigitChars == <<"0", "1", "2", "3", "4", "5", "6", "7", "8", "9">>

IsDigitChar(c) == \E d \in 1..10 : DigitChars[d] = c

DigitVal(c) == (CHOOSE d \in 1..10 : DigitChars[d] = c) - 1

Chars(m) == [i \in 1..Len(m) |-> DigitChars[m[i] + 1]]

\* `{}` of an f64: the shortest decimal text, never in exponent form
PlainText(m, x) ==
    IF x >= 0 THEN Chars(m \o Zeros(x))
    ELSE IF Len(m) > 0 - x
    THEN Chars(SubSeq(m, 1, Len(m) + x)) \o <<".">> \o Chars(SubSeq(m, Len(m) + x + 1, Len(m)))
    ELSE <<"0", ".">> \o Chars(Zeros(0 - x - Len(m)) \o m)

DecText(d) == PlainText(d.m, d.x)

f64_to_string(a) ==
    IF IsNaN(a) THEN <<"N", "a", "N">>
    ELSE (IF a.neg THEN <<"-">> ELSE << >>)
         \o (IF IsInf(a) THEN <<"i", "n", "f">>
             ELSE IF a.m = << >> THEN <<"0">>
             ELSE DecText(ShortestDec(a)))

\* impl Display for Number, without a precision
to_string(n) == f64_to_string(n.value) \o name(n.suffix)

\* the characters with the Unicode property White_Space, which str::trim
\* strips (char::is_whitespace): U+0009 to U+000D, U+0020, U+0085, U+00A0,
\* U+1680, U+2000 to U+200A, U+2028, U+2029, U+202F, U+205F, U+3000.  A
\* character above U+1680 is written as the name of its code point
WhiteSpace ==
    {"\t", "\n", "", "\f", "\r", " ", "", " ", " ",
     "U+2000", "U+2001", "U+2002", "U+2003", "U+2004", "U+2005", "U+2006",
     "U+2007", "U+2008", "U+2009", "U+200A", "U+2028", "U+2029", "U+202F",
     "U+205F", "U+3000"}

RECURSIVE trim_start(_)
trim_start(s) ==
    IF s # << >> /\ Head(s) \in WhiteSpace THEN trim_start(Tail(s)) ELSE s

RECURSIVE trim_end(_)
trim_end(s) ==
    IF s # << >> /\ s[Len(s)] \in WhiteSpace
    THEN trim_end(SubSeq(s, 1, Len(s) - 1)) ELSE s

trim(s) == trim_end(trim_start(s))

ends_with(s, suf) ==
    Len(s) >= Len(suf) /\ SubSeq(s, Len(s) - Len(suf) + 1, Len(s)) = suf

Lower(c) ==
    CASE c = "I" -> "i"
      [] c = "N" -> "n"
      [] c = "F" -> "f"
      [] c = "A" -> "a"
      [] c = "T" -> "t"
      [] c = "Y" -> "y"
      [] OTHER   -> c

\* the number of digit characters of s from position i on
RECURSIVE DigitRun(_, _)
DigitRun(s, i) ==
    IF i <= Len(s) /\ IsDigitChar(s[i]) THEN 1 + DigitRun(s, i + 1) ELSE 0

DigitsOf(s, i, n) == [j \in 1..n |-> DigitVal(s[i + j - 1])]

\* the digits of a decimal exponent, read from the left as the float parser
\* of str::parse reads them: a digit is taken in while the value is below
\* 0x10000, so that an exponent of up to five digits is the number written
RECURSIVE ExpAcc(_, _, _)
ExpAcc(ds, i, e) ==
    IF i > Len(ds) THEN e
    ELSE ExpAcc(ds, i + 1, IF e < 65536 THEN 10 * e + ds[i] ELSE e)

ExpValue(ds) == ExpAcc(ds, 1, 0)

F64Ok(v) == [ok |-> TRUE, val |-> v]
\* ParseFloatError: "cannot parse float from empty string" or "invalid float literal"
F64Err(e) == [ok |-> FALSE, e |-> e]

\* <f64 as FromStr>::from_str: [sign] (inf | infinity | nan | digits[.digits][e[sign]digits])
parse_f64(s) ==
    LET hasSign == s # << >> /\ s[1] \in {"+", "-"}
        isNeg   == hasSign /\ s[1] = "-"
        body    == IF hasSign THEN Tail(s) ELSE s
        low     == [i \in 1..Len(body) |-> Lower(body[i])]
        ni      == DigitRun(body, 1)
        hasDot  == ni < Len(body) /\ body[ni + 1] = "."
        nf      == IF hasDot THEN DigitRun(body, ni + 2) ELSE 0
        pos     == ni + (IF hasDot THEN 1 + nf ELSE 0)
        digits  == DigitsOf(body, 1, ni) \o DigitsOf(body, ni + 2, nf)
        hasES   == pos + 2 <= Len(body) /\ body[pos + 2] \in {"+", "-"}
        eNeg    == hasES /\ body[pos + 2] = "-"
        eStart  == pos + 2 + (IF hasES THEN 1 ELSE 0)
        ne      == DigitRun(body, eStart)
        ev      == ExpValue(DigitsOf(body, eStart, ne))
    IN  IF s = << >> THEN F64Err(<<"cannot parse float from empty string">>)
        ELSE IF low \in {<<"i", "n", "f">>, <<"i", "n", "f", "i", "n", "i", "t", "y">>}
             THEN F64Ok(Inf(isNeg))
        ELSE IF low = <<"n", "a", "n">> THEN F64Ok(NaN)
        ELSE IF \/ ni + nf = 0
                \/ /\ pos # Len(body)
                   /\ \/ body[pos + 1] \notin {"e", "E"}
                      \/ ne = 0
                      \/ eStart + ne - 1 # Len(body)
             THEN F64Err(<<"invalid float literal">>)
        ELSE F64Ok(DecF(isNeg, digits,
                        (IF pos = Len(body) THEN 0 ELSE IF eNeg THEN 0 - ev ELSE ev) - nf))

\* Result<Number, String>; the message names the text that failed to parse
\* and the float parser's error
Ok(n) == [ok |-> TRUE, number |-> n]
Err(text, e) ==
    [ok |-> FALSE,
     err |-> <<"Parse number '">> \o text \o <<"' error for '">> \o e \o <<"'">>]

\* a scan that goes on to the next symbol, and then to the whole text, when
\* the head before a matched symbol is no float
RECURSIVE from_str_scan_retry(_, _)
from_str_scan_retry(s, i) ==
    IF i > Len(PREFIX_TABLE)
    THEN LET r == parse_f64(s)
         IN  IF r.ok THEN Ok(new(r.val, "None")) ELSE Err(s, r.e)
    ELSE IF ends_with(s, PREFIX_TABLE[i][2])
            /\ parse_f64(trim(SubSeq(s, 1, Len(s) - Len(PREFIX_TABLE[i][2])))).ok
    THEN Ok(new(parse_f64(trim(SubSeq(s, 1, Len(s) - Len(PREFIX_TABLE[i][2])))).val,
                PREFIX_TABLE[i][1]))
    ELSE from_str_scan_retry(s, i + 1)

\* `.parse().map_err(..)?` and `Ok(Number::new(val, suffix))` for the parse
\* r of the text num_str
ParsedNumber(num_str, r, suffix) ==
    IF r.ok THEN Ok(new(r.val, suffix)) ELSE Err(num_str, r.e)

RECURSIVE from_str_scan(_, _)
from_str_scan(s, i) ==
    IF i > Len(PREFIX_TABLE) THEN ParsedNumber(s, parse_f64(s), "None")
    ELSE IF ends_with(s, PREFIX_TABLE[i][2])
    THEN LET num_str == SubSeq(s, 1, Len(s) - Len(PREFIX_TABLE[i][2]))
         IN  ParsedNumber(num_str, parse_f64(trim(num_str)), PREFIX_TABLE[i][1])
    ELSE from_str_scan(s, i + 1)

\* impl FromStr for Number
from_str(s) == from_str_scan(trim(s), 1)

(***************************************************************************)
(* Unit tags and the dimensional rules (src/src/unit/units.rs, ops.rs).    *)
(* An impl is a record: lhs op rhs has type output.                        *)
(***************************************************************************)
Units ==
    {"Voltage", "Current", "Resistance", "Capacitance", "Inductance", "Charge",
     "Power", "Energy", "Time", "Frequency", "Length", "Area", "Force",
     "Pressure", "MagneticFlux", "FluxDensity", "Conductance", "Velocity",
     "Accel", "Temperature", "Angle"}

\* impl Mul<UnitNumber<rhs>> for UnitNumber<lhs> { type Output = UnitNumber<output> }
impl_mul(output, lhs, rhs) == [output |-> output, lhs |-> lhs, rhs |-> rhs]

\* impl Div<UnitNumber<rhs>> for UnitNumber<lhs> { type Output = UnitNumber<output> }
impl_div(output, lhs, rhs) == [output |-> output, lhs |-> lhs, rhs |-> rhs]

\* a rule that derives only the first of the two divisions
define_rule_one_div(output, lhs, rhs) ==
    [mul |-> {impl_mul(output, lhs, rhs)},
     div |-> {impl_div(lhs, output, rhs)}]

\* a rule whose second division repeats the divisor of the first
define_rule_repeated_divisor(output, lhs, rhs) ==
    [mul |-> {impl_mul(output, lhs, rhs)},
     div |-> {impl_div(lhs, output, rhs), impl_div(rhs, output, rhs)}]

\* a rule that also gives the product with the operands swapped
define_rule_both_orders(output, lhs, rhs) ==
    [mul |-> {impl_mul(output, lhs, rhs), impl_mul(output, rhs, lhs)},
     div |-> {impl_div(lhs, output, rhs), impl_div(rhs, output, lhs)}]

define_rule(output, lhs, rhs) ==
    [mul |-> {impl_mul(output, lhs, rhs)},
     div |-> {impl_div(lhs, output, rhs), impl_div(rhs, output, lhs)}]

\* the define_rule! invocations of ops.rs, in source order
Rules ==
    << define_rule("Voltage", "Resistance", "Current"),
       define_rule("Power", "Voltage", "Current"),
       define_rule("Energy", "Power", "Time"),
       define_rule("Charge", "Capacitance", "Voltage"),
       define_rule("Charge", "Current", "Time"),
       define_rule("Current", "Charge", "Time"),
       define_rule("Length", "Velocity", "Time"),
       define_rule("Power", "Force", "Velocity"),
       define_rule("Energy", "Force", "Length"),
       define_rule("Force", "Pressure", "Area"),
       define_rule("MagneticFlux", "FluxDensity", "Area"),
       define_rule("MagneticFlux", "Voltage", "Time") >>

MulImpls ==
    UNION {Rules[i].mul : i \in 1..Len(Rules)}
        \cup {impl_mul("Area", "Length", "Length")}

DivImpls ==
    UNION {Rules[i].div : i \in 1..Len(Rules)}
        \cup {impl_div("Length", "Area", "Length")}

\* the output types the compiler finds for lhs * rhs
MulOutputs(lhs, rhs) == {i.output : i \in {j \in MulImpls : j.lhs = lhs /\ j.rhs = rhs}}

\* the output types the compiler finds for lhs / rhs; "Number" stands for the
\* untagged Number that the blanket impl Div<UnitNumber<U>> for UnitNumber<U>
\* returns
DivOutputs(lhs, rhs) ==
    {i.output : i \in {j \in DivImpls : j.lhs = lhs /\ j.rhs = rhs}}
        \cup (IF lhs = rhs THEN {"Number"} ELSE {})

\* UnitNumber<U>; unit is the type parameter
UnitNumber(unit, number) == [number |-> number, unit |-> unit]

\* #[derive(PartialEq, Eq)] on UnitNumber: the numbers field by field (PhantomData is always equal)
UnitNumber_eq(a, b) == eq(a.number, b.number)

\* impl PartialOrd for UnitNumber
UnitNumber_partial_cmp(a, b) == partial_cmp(a.number, b.number)

\* impl Ord for UnitNumber
UnitNumber_cmp(a, b) ==
    IF UnitNumber_partial_cmp(a, b) = "None" THEN "panic" ELSE UnitNumber_partial_cmp(a, b)

\* Unit::name(), the symbols of define_unit!
UnitName(u) ==
    CASE u = "Voltage"      -> <<"V">>
      [] u = "Current"      -> <<"A">>
      [] u = "Resistance"   -> <<"Ω">>
      [] u = "Capacitance"  -> <<"F">>
      [] u = "Inductance"   -> <<"H">>
      [] u = "Charge"       -> <<"Q">>
      [] u = "Power"        -> <<"W">>
      [] u = "Energy"       -> <<"J">>
      [] u = "Time"         -> <<"s">>
      [] u = "Frequency"    -> <<"H", "z">>
      [] u = "Length"       -> <<"m">>
      [] u = "Area"         -> <<"m", "²">>
      [] u = "Force"        -> <<"N">>
      [] u = "Pressure"     -> <<"P", "a">>
      [] u = "MagneticFlux" -> <<"W", "b">>
      [] u = "FluxDensity"  -> <<"T">>
      [] u = "Conductance"  -> <<"S">>
      [] u = "Velocity"     -> <<"m", "/", "s">>
      [] u = "Accel"        -> <<"m", "/", "s", "²">>
      [] u = "Temperature"  -> <<"K">>
      [] u = "Angle"        -> <<"r", "a", "d">>

\* UnitNumber::new(number) for a Number (Into<Number> is the identity)
UnitNumber_new(unit, number) == UnitNumber(unit, number)

\* UnitNumber::new(x) for a float or an integer converted by Number::from
UnitNumber_new_f64(unit, value) == UnitNumber(unit, from(value))

\* impl From<f64 / f32 / u32 / i32> for UnitNumber, after `value as f64`
UnitNumber_from(unit, value) == UnitNumber_new(unit, from(value))

\* a text that writes the prefix Kilo in lower case
UnitNumber_to_string_lower_kilo(q) ==
    IF q.number.suffix = "Kilo"
    THEN f64_to_string(q.number.value) \o <<"k">> \o UnitName(q.unit)
    ELSE to_string(q.number) \o UnitName(q.unit)

\* impl Display for UnitNumber, without a precision
UnitNumber_to_string(q) == to_string(q.number) \o UnitName(q.unit)

\* `Number::from_str(number_str)?` and `Ok(UnitNumber::new(number))` for the
\* parse r of the number
ParsedUnit(unit, r) ==
    IF r.ok THEN [ok |-> TRUE, value |-> UnitNumber_new(unit, r.number)] ELSE r

\* a parse that does not look at the unit symbol before it strips it
UnitNumber_from_str_any_tail(unit, s) ==
    LET t == trim(s)
        r == from_str(SubSeq(t, 1, Len(t) - Len(UnitName(unit))))
    IN  IF Len(t) < Len(UnitName(unit))
        THEN [ok |-> FALSE, err |-> <<"Expect end with '">> \o UnitName(unit) \o <<"'">>]
        ELSE IF r.ok THEN [ok |-> TRUE, value |-> UnitNumber_new(unit, r.number)]
        ELSE r

\* a parse that looks only at the last character of the unit symbol
UnitNumber_from_str_last_char(unit, s) ==
    LET t    == trim(s)
        last == SubSeq(UnitName(unit), Len(UnitName(unit)), Len(UnitName(unit)))
        r    == from_str(SubSeq(t, 1, Len(t) - Len(UnitName(unit))))
    IN  IF ends_with(t, last) /\ Len(t) >= Len(UnitName(unit))
        THEN IF r.ok THEN [ok |-> TRUE, value |-> UnitNumber_new(unit, r.number)]
             ELSE r
        ELSE [ok |-> FALSE, err |-> <<"Expect end with '">> \o UnitName(unit) \o <<"'">>]

\* impl FromStr for UnitNumber; the error of the Number parse is passed on by `?`
UnitNumber_from_str(unit, s) ==
    LET t == trim(s)
    IN  IF ends_with(t, UnitName(unit))
        THEN LET number_len == Len(t) - Len(UnitName(unit))
                 number_str == SubSeq(t, 1, number_len)
             IN  ParsedUnit(unit, from_str(number_str))
        ELSE [ok |-> FALSE, err |-> <<"Expect end with '">> \o UnitName(unit) \o <<"'">>]

\* a difference that keeps the left operand's prefix instead of renormalizing
UnitNumber_sub_keep_prefix(a, b) ==
    UnitNumber_new(a.unit, new(F64Div(F64Sub(to_f64(a.number), to_f64(b.number)),
                                      factor(a.number.suffix)), a.number.suffix))

\* impl Add, Sub, Neg for UnitNumber<U>
UnitNumber_add(a, b) == UnitNumber_new(a.unit, add(a.number, b.number))
UnitNumber_sub(a, b) == UnitNumber_new(a.unit, sub(a.number, b.number))
UnitNumber_neg(a) == UnitNumber_new(a.unit, neg(a.number))

\* impl Mul<Number>, Mul<f64>, Div<Number> for UnitNumber<U>; the fourth
\* definition is a division by a Number that would drop the tag
UnitNumber_mul_number(a, n) ==
    UnitNumber_new(a.unit, from_f64(F64Mul(to_f64(a.number), to_f64(n))))
UnitNumber_mul_f64(a, f) == UnitNumber_new(a.unit, from_f64(F64Mul(to_f64(a.number), f)))
UnitNumber_div_number_untagged(a, n) ==
    UnitNumber("Number", from_f64(F64Div(to_f64(a.number), to_f64(n))))
UnitNumber_div_number(a, n) ==
    UnitNumber_new(a.unit, from_f64(F64Div(to_f64(a.number), to_f64(n))))

\* impl Mul<UnitNumber<U>> for Number and for f64: rhs * self
number_mul_UnitNumber(n, a) == UnitNumber_mul_number(a, n)
f64_mul_UnitNumber(f, a) == UnitNumber_mul_f64(a, f)

\* impl_f64_like_method!(abs), (ceil), (floor), (round)
UnitNumber_abs(a) == UnitNumber_new(a.unit, abs(a.number))
UnitNumber_ceil(a) == UnitNumber_new(a.unit, ceil(a.number))
UnitNumber_floor(a) == UnitNumber_new(a.unit, floor(a.number))
UnitNumber_round(a) == UnitNumber_new(a.unit, round(a.number))

\* Frequency::to_period and Time::to_frquency: the new value is `1. / self.number`
Frequency_to_period(a) == UnitNumber_new("Time", f64_div(Dec(<<1>>, 0), a.number))
Time_to_frquency(a) == UnitNumber_new("Frequency", f64_div(Dec(<<1>>, 0), a.number))

(***************************************************************************)
(* The state: three sessions of calls on the library.                      *)
(*   acc, kind, lhs, rhs, res, steps : a chain of Number operations; acc   *)
(*       is the current Number, kind the last call, lhs and rhs its        *)
(*       operands, res the outcome of a comparison                         *)
(*   tkind, tnum, txt, parsed        : formatting and parsing of texts;    *)
(*       tnum is the value that was formatted, txt the text, parsed the    *)
(*       outcome of parsing txt                                            *)
(*   targ, tunit, tout               : the argument of the constructor     *)
(*       that made tnum, the tag a text is parsed as, and the text of the  *)
(*       parsed value                                                      *)
(*   qop, qa, qb, qres               : the last operation on quantities,   *)
(*       its operands and its result                                       *)
(*   qprev, qsteps                   : the operation before it, and the    *)
(*       number of operations applied to the first value                   *)
(***************************************************************************)
VARIABLES acc, kind, lhs, rhs, res, steps,
          tkind, tnum, txt, parsed, targ, tunit, tout,
          qop, qa, qb, qres, qprev, qsteps

numVars == <<acc, kind, lhs, rhs, res, steps>>
textVars == <<tkind, tnum, txt, parsed, targ, tunit, tout>>
unitVars == <<qop, qa, qb, qres, qprev, qsteps>>
vars == <<acc, kind, lhs, rhs, res, steps, tkind, tnum, txt, parsed, targ, tunit, tout,
          qop, qa, qb, qres, qprev, qsteps>>

\* bounds of the sessions
MaxSteps == 2

\* n * 10^x for a small integer n
D(n, x) == DecF(n < 0, IntToDec(IF n < 0 THEN 0 - n ELSE n), x)

\* the floats n * 10^x for the pairs <<n, x>> of P, and the Numbers of
\* mantissa n * 10^x and prefix p for the triples <<n, x, p>> of T
Floats(P) == {D(d[1], d[2]) : d \in P}
Numbers(T) == {new(D(t[1], t[2]), t[3]) : t \in T}

\* mantissas and Numbers given to Number::new at the start of a chain
SeedMantissas == Floats({<<33, -1>>, <<-22, -1>>})
SeedNumbers == {new(m, p) : m \in SeedMantissas, p \in Suffix}

\* operands of the arithmetic
ArgNumbers == Numbers({<<22, -1, "Micro">>, <<0, 0, "None">>})
ArgFloats == {D(1, 3)}
Divisors == ArgFloats \cup {D(0, 0)}

\* arguments of from_f64
Values ==
    Floats({<<0, 0>>, <<999999, -3>>, <<1, 3>>, <<-1, 3>>, <<-999999, -3>>,
            <<1, 9>>, <<999999999, 0>>, <<25, 11>>, <<1, 6>>, <<999999, 0>>, <<1, 0>>,
            <<5, -1>>, <<1, -3>>, <<1, -6>>, <<1, -9>>, <<1, -12>>, <<999, -15>>,
            <<1, -13>>, <<-5, -13>>})
        \cup {Zero(TRUE), NaN, Inf(FALSE), Inf(TRUE)}

\* operands of the comparisons
CmpMantissas ==
    Floats({<<0, 0>>, <<1, 0>>, <<15, -1>>, <<15, 2>>, <<-22, -1>>}) \cup {NaN}
CmpNumbers == {new(m, p) : m \in CmpMantissas, p \in Suffix}
CmpUnits == {"Voltage", "Length"}

NumOpd(n) == [t |-> "num", num |-> n]
F64Opd(f) == [t |-> "f64", f |-> f]
UnitOpd(q) == [t |-> "unit", q |-> q]
NoOpd == [t |-> "none"]
OpdAbs(o) ==
    IF o.t = "num" THEN to_f64(o.num)
    ELSE IF o.t = "unit" THEN to_f64(o.q.number)
    ELSE o.f

NoRes == [t |-> "none"]

NumInit ==
    /\ acc = zero
    /\ kind = "init"
    /\ lhs = NoOpd
    /\ rhs = NoOpd
    /\ res = NoRes
    /\ steps = 0

TextInit ==
    /\ tkind = "init"
    /\ tnum = zero
    /\ txt = << >>
    /\ parsed = NoRes
    /\ targ = NoOpd
    /\ tunit = "Voltage"
    /\ tout = << >>

UnitInit ==
    /\ qop = "init"
    /\ qa = UnitNumber("Voltage", zero)
    /\ qb = UnitNumber("Voltage", zero)
    /\ qres = UnitNumber("Voltage", zero)
    /\ qprev = NoRes
    /\ qsteps = 0

Init == NumInit /\ TextInit /\ UnitInit

\* Number::new(m, p)
New ==
    \E n \in SeedNumbers :
        /\ kind = "init"
        /\ acc' = new(n.value, n.suffix)
        /\ kind' = "new"
        /\ lhs' = NumOpd(n)
        /\ rhs' = NoOpd
        /\ res' = NoRes
        /\ steps' = 0
        /\ UNCHANGED <<textVars, unitVars>>

\* Number::from_f64(v)
FromF64 ==
    \E v \in Values :
        /\ kind = "init"
        /\ acc' = from_f64(v)
        /\ kind' = "from_f64"
        /\ lhs' = F64Opd(v)
        /\ rhs' = NoOpd
        /\ res' = NoRes
        /\ steps' = 0
        /\ UNCHANGED <<textVars, unitVars>>

Arith(k, l, r, result) ==
    /\ steps < MaxSteps
    /\ acc' = result
    /\ kind' = k
    /\ lhs' = l
    /\ rhs' = r
    /\ res' = NoRes
    /\ steps' = steps + 1
    /\ UNCHANGED <<textVars, unitVars>>

\* Number op Number
AddNumber == \E b \in ArgNumbers : Arith("add", NumOpd(acc), NumOpd(b), add(acc, b))
SubNumber == \E b \in ArgNumbers : Arith("sub", NumOpd(acc), NumOpd(b), sub(acc, b))
MulNumber == \E b \in ArgNumbers : Arith("mul", NumOpd(acc), NumOpd(b), mul(acc, b))
DivNumber == \E b \in ArgNumbers : Arith("div", NumOpd(acc), NumOpd(b), div(acc, b))

\* Number op f64
AddFloat == \E f \in ArgFloats : Arith("add", NumOpd(acc), F64Opd(f), add_f64(acc, f))
SubFloat == \E f \in ArgFloats : Arith("sub", NumOpd(acc), F64Opd(f), sub_f64(acc, f))
MulFloat == \E f \in ArgFloats : Arith("mul", NumOpd(acc), F64Opd(f), mul_f64(acc, f))
DivFloat == \E f \in Divisors : Arith("div", NumOpd(acc), F64Opd(f), div_f64(acc, f))

\* f64 op Number
FloatAdd == \E f \in ArgFloats : Arith("add", F64Opd(f), NumOpd(acc), f64_add(f, acc))
FloatSub == \E f \in ArgFloats : Arith("sub", F64Opd(f), NumOpd(acc), f64_sub(f, acc))
FloatMul == \E f \in ArgFloats : Arith("mul", F64Opd(f), NumOpd(acc), f64_mul(f, acc))
FloatDiv == \E f \in ArgFloats : Arith("div", F64Opd(f), NumOpd(acc), f64_div(f, acc))

\* a == b, a.partial_cmp(&b), a.cmp(&b)
Compare ==
    \E a \in CmpNumbers, b \in CmpNumbers :
        /\ kind = "init"
        /\ kind' = "cmp"
        /\ lhs' = NumOpd(a)
        /\ rhs' = NumOpd(b)
        /\ res' = [eq |-> eq(a, b), partial_cmp |-> partial_cmp(a, b), cmp |-> cmp(a, b)]
        /\ UNCHANGED <<acc, steps, textVars, unitVars>>

\* the same on two quantities of one tag
CompareUnit ==
    \E a \in CmpNumbers, b \in CmpNumbers, u \in CmpUnits :
        /\ kind = "init"
        /\ kind' = "cmp"
        /\ lhs' = UnitOpd(UnitNumber(u, a))
        /\ rhs' = UnitOpd(UnitNumber(u, b))
        /\ res' = [eq |-> UnitNumber_eq(UnitNumber(u, a), UnitNumber(u, b)),
                   partial_cmp |-> UnitNumber_partial_cmp(UnitNumber(u, a), UnitNumber(u, b)),
                   cmp |-> UnitNumber_cmp(UnitNumber(u, a), UnitNumber(u, b))]
        /\ UNCHANGED <<acc, steps, textVars, unitVars>>

(***************************************************************************)
(* Texts: parse an input, or format a Number and parse the text back.      *)
(***************************************************************************)
MaxLen == 3

Alphabet == {"1", ".", "-", " ", "K", "k", "m", "e", "X"}

ShortTexts == UNION {[1..n -> Alphabet] : n \in 0..MaxLen}

Heads ==
    {<< >>, <<"3", ".", "3">>, <<"2", ".", "2">>, <<"1", "0", "0">>,
     <<"h", "e", "l", "l", "o">>, <<"3", ".", "3", "X">>,
     <<"b", "a", "d", "_", "n", "u", "m", "b", "e", "r">>,
     <<"n", "a">>, <<"i", "n", "f">>, <<"+", "1", "e", "-", "3">>,
     <<" ", "4", "2", ".", "0", " ">>,
     <<" ", "", "7", ".", "5", "\f", "U+2003">>, <<"7", "", "5">>}

Tails == {<< >>, <<"G">>, <<"M">>, <<"K">>, <<"k">>, <<"m">>, <<"u">>, <<"n">>, <<"p">>}

Texts == ShortTexts \cup {h \o t : h \in Heads, t \in Tails}

FmtMantissas ==
    Floats({<<0, 0>>, <<1, 0>>, <<15, -1>>, <<33, -1>>, <<-22, -1>>, <<15, 2>>,
            <<999999, -3>>, <<1, -7>>, <<1, 21>>, <<123456789, -4>>, <<-5, -13>>,
            <<22, -1>>})
        \cup {Zero(TRUE)}

FmtNumbers == {new(m, p) : m \in FmtMantissas, p \in Suffix}

\* s.parse::<Number>()
Parse ==
    \E s \in Texts :
        /\ tkind = "init"
        /\ tkind' = "parse"
        /\ txt' = s
        /\ parsed' = from_str(s)
        /\ UNCHANGED <<tnum, targ, tunit, tout, numVars, unitVars>>

\* n.to_string()
Format ==
    \E n \in FmtNumbers :
        /\ tkind = "init"
        /\ tkind' = "format"
        /\ tnum' = n
        /\ txt' = to_string(n)
        /\ UNCHANGED <<parsed, targ, tunit, tout, numVars, unitVars>>

\* the text of a Number parsed back (as Serialize then Deserialize do)
ParseBack ==
    /\ tkind = "format"
    /\ tkind' = "roundtrip"
    /\ parsed' = from_str(txt)
    /\ UNCHANGED <<tnum, txt, targ, tunit, tout, numVars, unitVars>>

\* the symbols given to Suffix::from_str
SuffixTexts == Tails \cup {<<"z">>, <<"g">>, <<"M", "M">>, <<" ", "K">>, <<"1">>}

SuffixOpd(p) == [t |-> "suffix", suffix |-> p]

\* Suffix::from_str(s)
SuffixFromStr ==
    \E s \in SuffixTexts :
        /\ tkind = "init"
        /\ tkind' = "suffix_from_str"
        /\ txt' = s
        /\ parsed' = Suffix_from_str(s)
        /\ UNCHANGED <<tnum, targ, tunit, tout, numVars, unitVars>>

\* Suffix::from_str(p.name())
SuffixNameFromStr ==
    \E p \in Suffix :
        /\ tkind = "init"
        /\ tkind' = "suffix_name"
        /\ targ' = SuffixOpd(p)
        /\ txt' = name(p)
        /\ parsed' = Suffix_from_str(name(p))
        /\ UNCHANGED <<tnum, tunit, tout, numVars, unitVars>>

(***************************************************************************)
(* Texts of quantities: a value is constructed, formatted, and its text is *)
(* parsed back; or an input is parsed as a quantity of some tag and the    *)
(* parsed value is formatted.  A bare Number has unit "Number".            *)
(***************************************************************************)
IsQuantity(v) == v.unit \in Units

\* arguments of the conversions from a float or an integer
IntOpd(i) == [t |-> "i32", i |-> i]
FromArgs ==
    {F64Opd(f) : f \in Floats({<<1, 6>>, <<1, -9>>, <<5, -3>>, <<-123, -2>>, <<0, 0>>,
                                <<15, 2>>, <<25, 8>>})}
        \cup {IntOpd(i) : i \in {0, 220, -5, 1000000}}

\* `value as f64`
AsF64(a) == IF a.t = "i32" THEN as_f64(a.i) ELSE a.f

UnitHeads ==
    {<< >>, <<"5">>, <<"5", ".", "6">>, <<"2", ".", "2">>, <<"x">>, <<"1", "e", "3">>}

UnitSymbols == {UnitName(u) : u \in Units}

\* the white space before and after a text: blanks, or U+00A0 and U+3000
\* before and a form feed and U+0085 after
Blanks == {<< <<" ", " ">>, <<" ">> >>, << <<" ", "U+3000">>, <<"\f", "">> >>}

\* a head, a prefix symbol or none, a unit symbol or none; some in white space
UnitTexts ==
    {h \o p \o u : h \in UnitHeads, p \in Tails, u \in UnitSymbols \cup {<< >>}}
        \cup {b[1] \o h \o p \o u \o b[2] :
                 b \in Blanks, h \in {<<"1", ".", "2">>}, p \in {<<"u">>, << >>},
                 u \in UnitSymbols}

Constructed(k, a, v) ==
    /\ tkind = "init"
    /\ tkind' = k
    /\ targ' = a
    /\ tnum' = v
    /\ UNCHANGED <<txt, parsed, tunit, tout, numVars, unitVars>>

\* Number::new(m, p)
NumberNewValue ==
    \E n \in FmtNumbers :
        Constructed("Number::new", NumOpd(n), UnitNumber("Number", new(n.value, n.suffix)))

\* Number::from(x)
NumberFrom ==
    \E a \in FromArgs : Constructed("Number::from", a, UnitNumber("Number", from(AsF64(a))))

\* UnitNumber::<U>::new(n) for a Number n
UnitNewNumber ==
    \E u \in Units, n \in FmtNumbers :
        Constructed("UnitNumber::new", NumOpd(n), UnitNumber_new(u, n))

\* UnitNumber::<U>::new(x) and UnitNumber::<U>::from(x) for a float or an integer x
UnitNewFrom ==
    \E u \in Units, a \in FromArgs :
        Constructed("UnitNumber::new", a, UnitNumber_new_f64(u, AsF64(a)))

UnitFrom ==
    \E u \in Units, a \in FromArgs :
        Constructed("UnitNumber::from", a, UnitNumber_from(u, AsF64(a)))

\* v.to_string()
FormatValue ==
    /\ tkind \in {"Number::new", "Number::from", "UnitNumber::new", "UnitNumber::from"}
    /\ tkind' = "uformat"
    /\ txt' = IF IsQuantity(tnum) THEN UnitNumber_to_string(tnum) ELSE to_string(tnum.number)
    /\ UNCHANGED <<tnum, parsed, targ, tunit, tout, numVars, unitVars>>

\* the text of a quantity parsed back as a quantity of its tag
ParseBackUnit ==
    /\ tkind = "uformat"
    /\ IsQuantity(tnum)
    /\ tkind' = "uroundtrip"
    /\ tunit' = tnum.unit
    /\ parsed' = UnitNumber_from_str(tnum.unit, txt)
    /\ UNCHANGED <<tnum, txt, targ, tout, numVars, unitVars>>

\* the text of a quantity parsed as a quantity of another tag
ParseAsOther ==
    \E u \in Units :
        /\ tkind = "uformat"
        /\ IsQuantity(tnum)
        /\ u # tnum.unit
        /\ tkind' = "ucross"
        /\ tunit' = u
        /\ parsed' = UnitNumber_from_str(u, txt)
        /\ UNCHANGED <<tnum, txt, targ, tout, numVars, unitVars>>

\* s.parse::<UnitNumber<U>>()
ParseUnit ==
    \E u \in Units, s \in UnitTexts :
        /\ tkind = "init"
        /\ tkind' = "uparse"
        /\ tunit' = u
        /\ txt' = s
        /\ parsed' = UnitNumber_from_str(u, s)
        /\ UNCHANGED <<tnum, targ, tout, numVars, unitVars>>

\* the parsed quantity formatted again
Reformat ==
    /\ tkind \in {"uparse", "uroundtrip"}
    /\ parsed.ok
    /\ tkind' = IF tkind = "uparse" THEN "uparse_format" ELSE "uroundtrip_format"
    /\ tout' = UnitNumber_to_string(parsed.value)
    /\ UNCHANGED <<tnum, txt, parsed, targ, tunit, numVars, unitVars>>

NextUnitText ==
    \/ NumberNewValue \/ NumberFrom \/ UnitNewNumber \/ UnitNewFrom \/ UnitFrom
    \/ FormatValue \/ ParseBackUnit \/ ParseAsOther \/ ParseUnit \/ Reformat

SpecUnitText == Init /\ [][NextUnitText]_vars

(***************************************************************************)
(* Quantities: a product or a quotient of two quantities.  The compiler    *)
(* rejects a pair of tags that no impl covers: "Unsupported".              *)
(***************************************************************************)
QNumbers ==
    Numbers({<<12, 0, "None">>, <<6, 0, "None">>, <<22, -1, "Kilo">>}) \cup {zero}

Unsupported == [unit |-> "Unsupported"]

\* a product stored as the absolute value with prefix None
UnitNumber_mul_raw(output, a, b) ==
    UnitNumber(output, new(F64Mul(to_f64(a.number), to_f64(b.number)), "None"))

\* the body of an impl_mul! impl
UnitNumber_mul(output, a, b) == UnitNumber(output, mul(a.number, b.number))

\* a quotient of the stored mantissas under the dividend's prefix
UnitNumber_div_mantissas(output, a, b) ==
    UnitNumber(output, new(F64Div(a.number.value, b.number.value), a.number.suffix))

\* the body of an impl_div! impl, and of the blanket same-unit impl that yields a Number
UnitNumber_div(output, a, b) == UnitNumber(output, div(a.number, b.number))

MulUnit ==
    \E l \in Units, r \in Units, a \in QNumbers, b \in QNumbers :
        /\ qop = "init"
        /\ qop' = "mul"
        /\ qa' = UnitNumber(l, a)
        /\ qb' = UnitNumber(r, b)
        /\ IF MulOutputs(l, r) = {} THEN qres' = Unsupported
           ELSE \E o \in MulOutputs(l, r) :
                    qres' = UnitNumber_mul(o, UnitNumber(l, a), UnitNumber(r, b))
        /\ UNCHANGED <<qprev, qsteps, numVars, textVars>>

DivUnit ==
    \E l \in Units, r \in Units, a \in QNumbers, b \in QNumbers :
        /\ qop = "init"
        /\ qop' = "div"
        /\ qa' = UnitNumber(l, a)
        /\ qb' = UnitNumber(r, b)
        /\ IF DivOutputs(l, r) = {} THEN qres' = Unsupported
           ELSE \E o \in DivOutputs(l, r) :
                    qres' = UnitNumber_div(o, UnitNumber(l, a), UnitNumber(r, b))
        /\ UNCHANGED <<qprev, qsteps, numVars, textVars>>

(***************************************************************************)
(* A chain of operations on one value.  The value is a quantity, or the    *)
(* untagged Number (unit "Number") that a same-unit division returns or    *)
(* that Number::new makes.                                                 *)
(***************************************************************************)
MaxOps == 2

\* the Numbers the first quantity is made of, and the first bare Numbers
QtyNumbers ==
    Numbers({<<12, 0, "None">>, <<10, 0, "Milli">>, <<15, -1, "None">>, <<1, 0, "None">>})
BareNumbers ==
    Numbers({<<15, -1, "Kilo">>, <<-25, -1, "Milli">>, <<-4, -1, "None">>,
             <<9995, -1, "Kilo">>})
        \cup {new(NaN, "Micro")}

\* right operands: of + and -, of * and / by a Number, of * and / by a float,
\* and of a product or quotient of two quantities
TermNumbers == Numbers({<<1, -1, "None">>, <<5, 0, "Milli">>, <<5, -1, "None">>})
ScaleNumbers == {new(D(2, 0), "Kilo")}
ScaleFloats == {D(5, -1)}
FactorNumbers == Numbers({<<6, 0, "None">>, <<11, -1, "None">>})

\* UnitNumber::<U>::new(n)
UnitNew ==
    \E u \in Units, n \in QtyNumbers :
        /\ qop = "init"
        /\ qop' = "new"
        /\ qa' = NumOpd(n)
        /\ qb' = NoOpd
        /\ qres' = UnitNumber_new(u, n)
        /\ qprev' = NoRes
        /\ qsteps' = 0
        /\ UNCHANGED <<numVars, textVars>>

\* Number::new(m, p), kept as a bare value
NumberNew ==
    \E n \in BareNumbers :
        /\ qop = "init"
        /\ qop' = "new"
        /\ qa' = NumOpd(n)
        /\ qb' = NoOpd
        /\ qres' = UnitNumber("Number", new(n.value, n.suffix))
        /\ qprev' = NoRes
        /\ qsteps' = 0
        /\ UNCHANGED <<numVars, textVars>>

\* a value is there to operate on, and the chain may go on
CanStep ==
    /\ qop # "init"
    /\ qres # Unsupported
    /\ qsteps < MaxOps

QStep(op, a, b, result) ==
    /\ CanStep
    /\ qprev' = [op |-> qop, a |-> qa, b |-> qb]
    /\ qop' = op
    /\ qa' = a
    /\ qb' = b
    /\ qres' = result
    /\ qsteps' = qsteps + 1
    /\ UNCHANGED <<numVars, textVars>>

\* q + r, q - r for r of the tag of q
AddUnit ==
    \E n \in TermNumbers :
        /\ IsQuantity(qres)
        /\ QStep("add", qres, UnitNumber(qres.unit, n),
                 UnitNumber_add(qres, UnitNumber(qres.unit, n)))

SubUnit ==
    \E n \in TermNumbers :
        /\ IsQuantity(qres)
        /\ QStep("sub", qres, UnitNumber(qres.unit, n),
                 UnitNumber_sub(qres, UnitNumber(qres.unit, n)))

\* q * n, n * q, q * f, f * q, q / n
UnitMulNumber ==
    \E n \in ScaleNumbers :
        /\ IsQuantity(qres)
        /\ QStep("mul_number", qres, NumOpd(n), UnitNumber_mul_number(qres, n))

NumberMulUnit ==
    \E n \in ScaleNumbers :
        /\ IsQuantity(qres)
        /\ QStep("number_mul", NumOpd(n), qres, number_mul_UnitNumber(n, qres))

UnitMulFloat ==
    \E f \in ScaleFloats :
        /\ IsQuantity(qres)
        /\ QStep("mul_f64", qres, F64Opd(f), UnitNumber_mul_f64(qres, f))

FloatMulUnit ==
    \E f \in ScaleFloats :
        /\ IsQuantity(qres)
        /\ QStep("f64_mul", F64Opd(f), qres, f64_mul_UnitNumber(f, qres))

UnitDivNumber ==
    \E n \in ScaleNumbers :
        /\ IsQuantity(qres)
        /\ QStep("div_number", qres, NumOpd(n), UnitNumber_div_number(qres, n))

\* q / f for a float f: UnitNumber<U> implements Mul<f64> and Div<Number> but
\* not Div<f64>, and the compiler rejects the expression
UnitDivFloat ==
    \E f \in ScaleFloats :
        /\ IsQuantity(qres)
        /\ QStep("div_f64", qres, F64Opd(f), Unsupported)

\* f.to_period() of a Frequency and t.to_frquency() of a Time
ToPeriod ==
    /\ qres.unit = "Frequency"
    /\ QStep("to_period", qres, NoOpd, Frequency_to_period(qres))

ToFrequency ==
    /\ qres.unit = "Time"
    /\ QStep("to_frquency", qres, NoOpd, Time_to_frquency(qres))

\* -v, v.abs(), v.ceil(), v.floor(), v.round() of a quantity or of a bare Number
NegValue ==
    QStep("neg", qres, NoOpd,
          IF IsQuantity(qres) THEN UnitNumber_neg(qres)
          ELSE UnitNumber("Number", neg(qres.number)))

AbsValue ==
    QStep("abs", qres, NoOpd,
          IF IsQuantity(qres) THEN UnitNumber_abs(qres)
          ELSE UnitNumber("Number", abs(qres.number)))

CeilValue ==
    QStep("ceil", qres, NoOpd,
          IF IsQuantity(qres) THEN UnitNumber_ceil(qres)
          ELSE UnitNumber("Number", ceil(qres.number)))

FloorValue ==
    QStep("floor", qres, NoOpd,
          IF IsQuantity(qres) THEN UnitNumber_floor(qres)
          ELSE UnitNumber("Number", floor(qres.number)))

RoundValue ==
    QStep("round", qres, NoOpd,
          IF IsQuantity(qres) THEN UnitNumber_round(qres)
          ELSE UnitNumber("Number", round(qres.number)))

\* q * r and q / r for a quantity r of a tag that an impl covers
MulBy ==
    /\ CanStep
    /\ IsQuantity(qres)
    /\ \E r \in Units : \E o \in MulOutputs(qres.unit, r) : \E n \in FactorNumbers :
           QStep("mul", qres, UnitNumber(r, n), UnitNumber_mul(o, qres, UnitNumber(r, n)))

DivBy ==
    /\ CanStep
    /\ IsQuantity(qres)
    /\ \E r \in Units : \E o \in DivOutputs(qres.unit, r) : \E n \in FactorNumbers :
           QStep("div", qres, UnitNumber(r, n), UnitNumber_div(o, qres, UnitNumber(r, n)))

NextQty ==
    \/ UnitNew \/ NumberNew
    \/ AddUnit \/ SubUnit
    \/ UnitMulNumber \/ NumberMulUnit \/ UnitMulFloat \/ FloatMulUnit \/ UnitDivNumber
    \/ UnitDivFloat \/ ToPeriod \/ ToFrequency
    \/ NegValue \/ AbsValue \/ CeilValue \/ FloorValue \/ RoundValue
    \/ MulBy \/ DivBy

SpecQty == Init /\ [][NextQty]_vars

Next ==
    \/ New
    \/ FromF64
    \/ AddNumber \/ SubNumber \/ MulNumber \/ DivNumber
    \/ AddFloat \/ SubFloat \/ MulFloat \/ DivFloat
    \/ FloatAdd \/ FloatSub \/ FloatMul \/ FloatDiv

Spec == Init /\ [][Next]_vars

NextCmp == Compare \/ CompareUnit

SpecCmp == Init /\ [][NextCmp]_vars

NextText == Parse \/ Format \/ ParseBack \/ SuffixFromStr \/ SuffixNameFromStr

SpecText == Init /\ [][NextText]_vars

NextUnit == MulUnit \/ DivUnit

SpecUnit == Init /\ [][NextUnit]_vars

(***************************************************************************)
(* Properties.                                                             *)
(***************************************************************************)
ScanOrder == <<"Giga", "Mega", "Kilo", "None", "Milli", "Micro", "Nano", "Pico">>


\* the prefixes, by position in ScanOrder, whose factor is <= |v|
Qualifying(v) == {i \in 1..Len(ScanOrder) : F64Le(factor(ScanOrder[i]), F64Abs(v))}

\* C1: from_f64(v) returns the first prefix in the order Giga .. Pico whose
\* factor is <= |v|, with mantissa v / factor; when no factor qualifies (|v|
\* below 1e-12, v = 0) it returns prefix None with mantissa v.  999.999 gets
\* None, 1000 gets Kilo, 0 gets None with mantissa 0.
C1_FromF64PicksFirstPrefix ==
    kind = "from_f64" =>
        LET v == lhs.f
            q == Qualifying(v)
        IN  /\ q = {} => acc = new(v, "None")
            /\ q # {} => /\ acc.suffix = ScanOrder[Least(q)]
                         /\ acc.value = F64Div(v, factor(ScanOrder[Least(q)]))
            /\ F64Lt(F64Abs(v), D(1, -12)) => q = {}
            /\ v = D(999999, -3) => acc = new(D(999999, -3), "None")
            /\ v = D(1, 3) => acc = new(D(1, 0), "Kilo")
            /\ v = D(0, 0) => acc = new(D(0, 0), "None")

C1_Witness ==
    /\ kind = "from_f64"
    /\ lhs.f = D(1, 3)
    /\ acc = new(D(1, 0), "Kilo")

ApplyOp(k, a, b) ==
    CASE k = "add" -> F64Add(a, b)
      [] k = "sub" -> F64Sub(a, b)
      [] k = "mul" -> F64Mul(a, b)
      [] k = "div" -> F64Div(a, b)

ArithKinds == {"add", "sub", "mul", "div"}

\* n is what normalization yields for its own absolute value: the prefix is
\* the largest one whose factor is <= the magnitude, None when there is none
NormalForm(n) ==
    LET v == F64Abs(to_f64(n))
    IN  IF IsNaN(v) \/ F64Lt(v, D(1, -12)) THEN n.suffix = "None"
        ELSE /\ F64Le(factor(n.suffix), v)
             /\ n.suffix = "Giga" \/ F64Lt(v, F64Mul(D(1, 3), factor(n.suffix)))

\* n is the normalization of the float r: it has the first prefix in the order
\* Giga .. Pico whose factor is <= |r| and the mantissa r / factor, or the
\* prefix None and the mantissa r when no factor qualifies
Normalized(n, r) ==
    IF Qualifying(r) = {} THEN n = new(r, "None")
    ELSE /\ n.suffix = ScanOrder[Least(Qualifying(r))]
         /\ n.value = F64Div(r, factor(n.suffix))

\* x is y up to a relative error of 2^-52 (below 2.3e-16): two roundings
Rounded(x, y) ==
    F64Le(F64Abs(F64Sub(x, y)), F64Mul(F64Abs(y), Dec(<<2, 3>>, -17)))

\* C2 (as claimed): the result of a op b, for Numbers and bare floats in
\* either position and op in + - * /, is from_f64(to_f64(a) op to_f64(b)); its
\* absolute value is the operator applied to the operands' absolute values,
\* and after any chain of operations the current result is in normalized
\* form.
C2_ArithmeticRenormalizes ==
    kind \in ArithKinds =>
        LET r == ApplyOp(kind, OpdAbs(lhs), OpdAbs(rhs))
        IN  /\ acc = from_f64(r)
            /\ to_f64(acc) = r
            /\ NormalForm(acc)

\* C2 (amended): the result of a op b is the normalization of
\* r = to_f64(a) op to_f64(b): its prefix is picked from r alone and its
\* mantissa is r / factor rounded to a float, so that its absolute value
\* mantissa * factor is r up to the two roundings (a relative error of at
\* most 2^-52, unless mantissa * factor overflows next to the largest float)
\* and is r itself when r is infinite or NaN; after any chain of operations
\* the current result is in normalized form.  3.3 + 1000.0 is
\* 1.0032999999999999 Kilo, of absolute value 1003.2999999999998 and not
\* 1003.3.
C2_ArithmeticRenormalizesRounded ==
    kind \in ArithKinds =>
        LET r == ApplyOp(kind, OpdAbs(lhs), OpdAbs(rhs))
        IN  /\ Normalized(acc, r)
            /\ IF IsFinite(r) THEN Rounded(to_f64(acc), r) ELSE to_f64(acc) = r
            /\ NormalForm(acc)
            /\ (kind = "add" /\ lhs = NumOpd(new(D(33, -1), "None"))
                    /\ rhs = F64Opd(D(1, 3))) =>
                  /\ r = D(10033, -1)
                  /\ acc = new(Dec(<<1, 0, 0, 3, 2, 9, 9, 9, 9, 9, 9, 9, 9, 9, 9, 9, 9>>, -16),
                               "Kilo")
                  /\ to_f64(acc) =
                         Dec(<<1, 0, 0, 3, 2, 9, 9, 9, 9, 9, 9, 9, 9, 9, 9, 9, 8>>, -13)

\* the second operation of a chain: a product of a Mega and a Micro value
\* that has prefix None
C2_Witness ==
    /\ kind = "mul"
    /\ steps = 2
    /\ lhs.t = "num"
    /\ rhs.t = "num"
    /\ lhs.num.suffix = "Mega"
    /\ rhs.num.suffix = "Micro"
    /\ acc.suffix = "None"
    /\ Normalized(acc, F64Mul(to_f64(lhs.num), to_f64(rhs.num)))

\* C3 (as claimed): 3.3 Kilo + 2.2 Micro is a Number with prefix None and
\* mantissa about 3300.0000022 (within 1e-6).
C3_KiloPlusMicro ==
    (/\ kind = "add"
     /\ lhs = NumOpd(new(D(33, -1), "Kilo"))
     /\ rhs = NumOpd(new(D(22, -1), "Micro")))
        => /\ acc.suffix = "None"
           /\ F64Lt(F64Abs(F64Sub(acc.value, Dec(<<3, 3, 0, 0, 0, 0, 0, 0, 0, 2, 2>>, -7))),
                    D(1, -6))

\* C3 (amended): 3.3 Kilo + 2.2 Micro is a Number with prefix Kilo and
\* mantissa about 3.3000000022: its absolute value, about 3300.0000022, is
\* above the Kilo threshold.
C3_KiloPlusMicroIsKilo ==
    (/\ kind = "add"
     /\ lhs = NumOpd(new(D(33, -1), "Kilo"))
     /\ rhs = NumOpd(new(D(22, -1), "Micro")))
        => /\ acc.suffix = "Kilo"
           /\ F64Lt(F64Abs(F64Sub(acc.value, Dec(<<3, 3, 0, 0, 0, 0, 0, 0, 0, 2, 2>>, -10))),
                    D(1, -9))
           /\ F64Lt(F64Abs(F64Sub(to_f64(acc), Dec(<<3, 3, 0, 0, 0, 0, 0, 0, 0, 2, 2>>, -7))),
                    D(1, -6))

C3_Witness ==
    /\ kind = "add"
    /\ lhs = NumOpd(new(D(33, -1), "Kilo"))
    /\ rhs = NumOpd(new(D(22, -1), "Micro"))
    /\ acc.suffix = "Kilo"

\* C4: a == b on two Numbers, and on two quantities of one tag, holds exactly
\* when to_f64(a) == to_f64(b), also when the stored (mantissa, prefix) pairs
\* differ; so a == b holds exactly when cmp(a, b) is Equal.
C4_EqualityIsValueBased ==
    kind = "cmp" =>
        /\ res.eq <=> F64Eq(OpdAbs(lhs), OpdAbs(rhs))
        /\ res.eq <=> res.cmp = "Equal"

\* the ordering of x and y read off the sign of their difference
OrderOf(x, y) ==
    LET d == F64Sub(x, y)
    IN  IF IsNaN(x) \/ IsNaN(y) THEN "None"
        ELSE IF IsZero(d) THEN "Equal"
        ELSE IF d.neg THEN "Less" ELSE "Greater"

\* C5: partial_cmp on two Numbers, and on two quantities of one tag, is the
\* comparison of the absolute values to_f64(a) and to_f64(b): equal absolute
\* values compare Equal whatever the (mantissa, prefix) pairs (1.5 Kilo and
\* 1500 None), and a Number with a smaller prefix can order above one with a
\* larger prefix (1500 None and 1 Kilo).  The absolute value is the float
\* mantissa * factor: 1.5 Nano (1.5000000000000002e-9) orders above 1500 Pico
\* (1.5e-9).
C5_OrderingByAbsoluteValue ==
    kind = "cmp" =>
        /\ res.partial_cmp = OrderOf(OpdAbs(lhs), OpdAbs(rhs))
        /\ (~IsNaN(OpdAbs(lhs)) /\ OpdAbs(lhs) = OpdAbs(rhs)) => res.partial_cmp = "Equal"
        /\ (lhs.t = "num" /\ lhs.num = new(D(15, -1), "Kilo")
                /\ rhs.num = new(D(15, 2), "None")) => res.partial_cmp = "Equal"
        /\ (lhs.t = "unit" /\ lhs.q.number = new(D(15, 2), "None")
                /\ rhs.q.number = new(D(1, 0), "Kilo")) => res.partial_cmp = "Greater"
        /\ (lhs.t = "num" /\ lhs.num = new(D(15, -1), "Nano")
                /\ rhs.num = new(D(15, 2), "Pico")) =>
              /\ OpdAbs(lhs) = Dec(<<1, 5, 0, 0, 0, 0, 0, 0, 0, 0, 0, 0, 0, 0, 0, 0, 2>>, -25)
              /\ OpdAbs(rhs) = D(15, -10)
              /\ res.partial_cmp = "Greater"

C5_Witness ==
    /\ kind = "cmp"
    /\ lhs = NumOpd(new(D(15, 2), "None"))
    /\ rhs = NumOpd(new(D(1, 0), "Kilo"))
    /\ res.partial_cmp = "Greater"

Symbols == <<"G", "M", "K", "k", "m", "u", "n", "p">>
SymbolPrefix == <<"Giga", "Mega", "Kilo", "Kilo", "Milli", "Micro", "Nano", "Pico">>

\* the positions in Symbols of the symbols the trimmed text ends with
Matches(t) == {i \in 1..Len(Symbols) : ends_with(t, <<Symbols[i]>>)}

\* the text handed to the float parser: the head before the matched symbol,
\* or the whole trimmed text
NumericText(t) ==
    IF Matches(t) = {} THEN t ELSE trim(SubSeq(t, 1, Len(t) - 1))

\* C6: from_str trims the text and tests G, M, K, k, m, u, n, p against the
\* tail; on a match it returns (float of the head, matched prefix), K and k
\* both giving Kilo; with no match it returns (float of the trimmed text,
\* None).  At most one symbol matches, so the order of the table does not
\* matter.  "3.3K" is 3.3 Kilo, "2.2u" is 2.2 Micro, "100" is 100 None.
C6_ParseByTailSymbol ==
    tkind = "parse" =>
        LET t == trim(txt)
            r == parse_f64(NumericText(t))
        IN  /\ Cardinality(Matches(t)) <= 1
            /\ \A i \in Matches(t) :
                   r.ok => parsed = Ok(new(r.val, SymbolPrefix[i]))
            /\ (Matches(t) = {} /\ r.ok) => parsed = Ok(new(r.val, "None"))
            /\ txt = <<"3", ".", "3", "K">> => parsed = Ok(new(D(33, -1), "Kilo"))
            /\ txt = <<"3", ".", "3", "k">> => parsed = Ok(new(D(33, -1), "Kilo"))
            /\ txt = <<"2", ".", "2", "u">> => parsed = Ok(new(D(22, -1), "Micro"))
            /\ txt = <<"1", "0", "0">> => parsed = Ok(new(D(1, 2), "None"))

C6_Witness ==
    /\ tkind = "parse"
    /\ txt = <<"3", ".", "3", "k">>
    /\ parsed = Ok(new(D(33, -1), "Kilo"))

\* C7: from_str returns an error, and no value, whenever the numeric text it
\* selected is no float literal: the head before a matched symbol (also an
\* empty head, "K"), or the whole trimmed text when no symbol matches
\* ("hello", "3.3X", "bad_number").  A failure of the head is final: no
\* other symbol and not the whole text is tried ("nan" ends with n, and "na"
\* is no float).
C7_ParseErrorIsFinal ==
    tkind = "parse" =>
        /\ ~parse_f64(NumericText(trim(txt))).ok
               => (~parsed.ok /\ "number" \notin DOMAIN parsed)
        /\ txt \in {<<"K">>, <<"h", "e", "l", "l", "o">>, <<"3", ".", "3", "X">>,
                    <<"b", "a", "d", "_", "n", "u", "m", "b", "e", "r">>,
                    <<"n", "a", "n">>}
               => ~parsed.ok

C7_Witness ==
    /\ tkind = "parse"
    /\ txt = <<"n", "a", "n">>
    /\ parse_f64(txt).ok
    /\ ~parsed.ok

CanonicalSymbol(p) ==
    CASE p = "Giga"  -> <<"G">>
      [] p = "Mega"  -> <<"M">>
      [] p = "Kilo"  -> <<"K">>
      [] p = "None"  -> << >>
      [] p = "Milli" -> <<"m">>
      [] p = "Micro" -> <<"u">>
      [] p = "Nano"  -> <<"n">>
      [] p = "Pico"  -> <<"p">>

\* C8: for every prefix p and finite mantissa m, the text of Number(m, p) is
\* the mantissa followed by the canonical symbol of p, and parsing it returns
\* exactly Number(m, p).
C8_FormatParseRoundTrip ==
    tkind = "roundtrip" =>
        /\ txt = f64_to_string(tnum.value) \o CanonicalSymbol(tnum.suffix)
        /\ parsed = Ok(tnum)

C8_Witness ==
    /\ tkind = "roundtrip"
    /\ tnum = new(D(33, -1), "Mega")
    /\ txt = <<"3", ".", "3", "M">>
    /\ parsed = Ok(tnum)

\* C9: for every registered product Output = Lhs x Rhs (Area = Length x Length
\* too), Output / Rhs resolves to Lhs and Output / Lhs resolves to Rhs.
C9_RegistryClosedUnderInverses ==
    (qop = "mul" /\ qres.unit \in Units) =>
        /\ DivOutputs(qres.unit, qb.unit) = {qa.unit}
        /\ DivOutputs(qres.unit, qa.unit) = {qb.unit}

C9_Witness ==
    /\ qop = "mul"
    /\ qa.unit = "Resistance"
    /\ qb.unit = "Current"
    /\ qres.unit = "Voltage"

ListedProducts ==
    { <<"Voltage", "Resistance", "Current">>, <<"Power", "Voltage", "Current">>,
      <<"Energy", "Power", "Time">>, <<"Charge", "Capacitance", "Voltage">>,
      <<"Charge", "Current", "Time">>, <<"Length", "Velocity", "Time">>,
      <<"Power", "Force", "Velocity">>, <<"Energy", "Force", "Length">>,
      <<"Force", "Pressure", "Area">>, <<"MagneticFlux", "FluxDensity", "Area">>,
      <<"MagneticFlux", "Voltage", "Time">>, <<"Area", "Length", "Length">> }

\* C10: the products of the registry are exactly the twelve listed ones and
\* every other ordered pair of tags is unsupported for multiplication; the
\* identity of Current, Charge and Time is the division Current = Charge / Time.
C10_ProductsAreExactlyListed ==
    qop = "mul" =>
        /\ \A o \in Units :
               qres.unit = o <=> <<o, qa.unit, qb.unit>> \in ListedProducts
        /\ (\A o \in Units : <<o, qa.unit, qb.unit>> \notin ListedProducts)
               => qres = Unsupported
        /\ DivOutputs("Charge", "Time") = {"Current"}

\* C11: a quantity divided by a quantity of its own tag is defined for every
\* tag, is no registered division, and is the untagged Number that the
\* division of the two wrapped Numbers gives: the normalization of the
\* quotient of their absolute values (12 V / 2.2 kV is 5.454545454545455
\* Milli); a quantity of finite non-zero value divided by itself is the Number
\* 1 with prefix None
C11_SameUnitDivisionIsNumber ==
    /\ \A u \in Units : DivOutputs(u, u) = {"Number"}
    /\ (qop = "div" /\ qa.unit = qb.unit) =>
          /\ qres.unit = "Number"
          /\ {i \in DivImpls : i.lhs = qa.unit /\ i.rhs = qb.unit} = {}
          /\ qres.number = div(qa.number, qb.number)
          /\ Normalized(qres.number, F64Div(to_f64(qa.number), to_f64(qb.number)))
          /\ (qa.number = qb.number /\ IsFinite(to_f64(qa.number))
                  /\ ~IsZero(to_f64(qa.number)))
                 => qres.number = new(D(1, 0), "None")
          /\ (qa.number = new(D(12, 0), "None") /\ qb.number = new(D(22, -1), "Kilo"))
                 => qres.number = new(Dec(<<5, 4, 5, 4, 5, 4, 5, 4, 5, 4, 5, 4, 5, 4, 5, 5>>, -15),
                                        "Milli")

C11_Witness ==
    /\ qop = "div"
    /\ qa = UnitNumber("Temperature", new(D(22, -1), "Kilo"))
    /\ qb = qa
    /\ qres = UnitNumber("Number", new(D(1, 0), "None"))

\* x is y up to a relative error of 10^-15: some six roundings
Close(x, y) ==
    F64Le(F64Abs(F64Sub(x, y)), F64Mul(F64Abs(y), Dec(<<1>>, -15)))

\* tag U that wraps the Number sum or difference: the normalization of the
\* sum or difference of the absolute values, so that its prefix is the one of
\* the result's own magnitude: 1 A - 0.1 A is 900 Milli, 10 mQ + 5 mQ is 15
\* Milli, 1.5 V + 0.5 V is 2 None; 10 mA - 0.1 A is -90.00000000000001 Milli,
\* and (1 V + 5 mV) - 5 mV is 999.9999999999999 Milli
C13_SameTagAddSub ==
    /\ qop \in {"add", "sub"} =>
          /\ qa.unit = qb.unit
          /\ qres.unit = qa.unit
          /\ Normalized(qres.number, ApplyOp(qop, to_f64(qa.number), to_f64(qb.number)))
          /\ NormalForm(qres.number)
    /\ (qop = "sub" /\ qa = UnitNumber("Current", new(D(1, 0), "None"))
            /\ qb = UnitNumber("Current", new(D(1, -1), "None")))
          => qres = UnitNumber("Current", new(D(900, 0), "Milli"))
    /\ (qop = "add" /\ qa = UnitNumber("Charge", new(D(10, 0), "Milli"))
            /\ qb = UnitNumber("Charge", new(D(5, 0), "Milli")))
          => qres = UnitNumber("Charge", new(D(15, 0), "Milli"))
    /\ (qop = "add" /\ qa = UnitNumber("Voltage", new(D(15, -1), "None"))
            /\ qb = UnitNumber("Voltage", new(D(5, -1), "None")))
          => qres = UnitNumber("Voltage", new(D(2, 0), "None"))
    /\ (qop = "sub" /\ qa = UnitNumber("Current", new(D(10, 0), "Milli"))
            /\ qb = UnitNumber("Current", new(D(1, -1), "None")))
          => qres = UnitNumber("Current",
                               new(DecF(TRUE, <<9, 0, 0, 0, 0, 0, 0, 0, 0, 0, 0, 0, 0, 0, 0, 1>>,
                                        -14),
                                   "Milli"))
    /\ (qop = "sub" /\ qprev.op = "add"
            /\ qprev.a = UnitNumber("Voltage", new(D(1, 0), "None"))
            /\ qprev.b = UnitNumber("Voltage", new(D(5, 0), "Milli"))
            /\ qb = qprev.b)
          => /\ qa = UnitNumber("Voltage", new(D(1005, -3), "None"))
             /\ qres = UnitNumber("Voltage",
                                  new(Dec(<<9, 9, 9, 9, 9, 9, 9, 9, 9, 9, 9, 9, 9, 9, 9, 9>>, -13),
                                      "Milli"))

\* 1 A - 0.1 A: both operands have prefix None, the result has Milli
C13_Witness ==
    /\ qop = "sub"
    /\ qa = UnitNumber("Current", new(D(1, 0), "None"))
    /\ qb = UnitNumber("Current", new(D(1, -1), "None"))
    /\ qres = UnitNumber("Current", new(D(900, 0), "Milli"))

\* C14: a text parses as a quantity of tag U only if, trimmed, it ends with
\* the symbol of U; the symbol is stripped and the rest is parsed as a Number
\* ("5m" as Length is 5 None, "5mm" is 5 Milli); a text that does not end
\* with the symbol fails with "Expect end with '<symbol>'" ("5.6A" as Voltage:
\* "Expect end with 'V'"), and an error of the Number parse is the error
C14_UnitParse ==
    tkind = "uparse" =>
        LET t    == trim(txt)
            sym  == UnitName(tunit)
            rest == SubSeq(t, 1, Len(t) - Len(sym))
        IN  /\ parsed.ok => ends_with(t, sym)
            /\ ~ends_with(t, sym) =>
                  parsed = [ok |-> FALSE, err |-> <<"Expect end with '">> \o sym \o <<"'">>]
            /\ (ends_with(t, sym) /\ from_str(rest).ok) =>
                  /\ parsed.ok
                  /\ parsed.value = UnitNumber(tunit, from_str(rest).number)
            /\ (ends_with(t, sym) /\ ~from_str(rest).ok) => parsed = from_str(rest)
            /\ (tunit = "Length" /\ txt = <<"5", "m">>) =>
                  parsed.ok /\ parsed.value.number = new(D(5, 0), "None")
            /\ (tunit = "Length" /\ txt = <<"5", "m", "m">>) =>
                  parsed.ok /\ parsed.value.number = new(D(5, 0), "Milli")
            /\ (tunit = "Voltage" /\ txt = <<"5", ".", "6", "A">>) =>
                  parsed = [ok |-> FALSE, err |-> <<"Expect end with '", "V", "'">>]

\* "5.6A" parsed as a Voltage
C14_Witness ==
    /\ tkind = "uparse"
    /\ tunit = "Voltage"
    /\ txt = <<"5", ".", "6", "A">>
    /\ ~parsed.ok
    /\ parsed.err = <<"Expect end with '", "V", "'">>

\* C15: for every tag U (the tags whose symbol is or starts with a prefix
\* symbol too: Length "m", Temperature "K", Area, Velocity), every prefix p
\* and every finite mantissa m, the text of the quantity is the mantissa, the
\* canonical prefix symbol and the unit symbol; parsing the text as U gives a
\* quantity with the same mantissa, prefix and tag; and formatting that
\* quantity gives the same text.  "2.2kΩ" parsed and formatted is "2.2KΩ",
\* which parses to an equal quantity.
C15_UnitRoundTrip ==
    /\ (tkind \in {"uformat", "uroundtrip", "uroundtrip_format"} /\ IsQuantity(tnum)) =>
          txt = f64_to_string(tnum.number.value) \o CanonicalSymbol(tnum.number.suffix)
                    \o UnitName(tnum.unit)
    /\ tkind \in {"uroundtrip", "uroundtrip_format"} =>
          /\ parsed.ok
          /\ parsed.value = tnum
          /\ UnitNumber_eq(parsed.value, tnum)
    /\ tkind = "uroundtrip_format" => tout = txt
    /\ (tkind = "uparse_format" /\ tunit = "Resistance" /\ txt = <<"2", ".", "2", "k", "Ω">>) =>
          /\ parsed.value = UnitNumber("Resistance", new(D(22, -1), "Kilo"))
          /\ tout = <<"2", ".", "2", "K", "Ω">>
    /\ (tkind = "uroundtrip" /\ txt = <<"2", ".", "2", "K", "Ω">> /\ tunit = "Resistance") =>
          parsed.value = UnitNumber("Resistance", new(D(22, -1), "Kilo"))

\* 1.5 Kilo of Temperature, whose symbol K is also the symbol of Kilo
C15_Witness ==
    /\ tkind = "uroundtrip_format"
    /\ tnum = UnitNumber("Temperature", new(D(15, -1), "Kilo"))
    /\ txt = <<"1", ".", "5", "K", "K">>
    /\ parsed.value = tnum
    /\ tout = txt

\* the operations that the claim lists as keeping the tag: the division of a
\* quantity by a float is among them
TagKeepingClaimed ==
    {"add", "sub", "mul_number", "number_mul", "mul_f64", "f64_mul", "div_number",
     "div_f64", "neg", "abs", "ceil", "floor", "round"}

\* the operations of UnitNumber<U> whose result type is UnitNumber<U>
TagKeeping == TagKeepingClaimed \ {"div_f64"}

\* the operand of an operation that is the value it was applied to
Subject(op, a, b) == IF op \in {"number_mul", "f64_mul"} THEN b ELSE a

\* C16 (as claimed): same-tag + and -, * and / by a bare Number or a float,
\* negation, abs, ceil, floor and round of a quantity of tag U give a quantity
\* of tag U, and so does a sequence of them; the tag of a value differs from
\* the tag of the quantity it was computed from only after a product or
\* quotient of two quantities that an impl of the registry covers, and then
\* it is that impl's output tag
C16_TagInvariant ==
    /\ (qop \in TagKeepingClaimed /\ IsQuantity(Subject(qop, qa, qb))) =>
          qres.unit = Subject(qop, qa, qb).unit
    /\ (qsteps = 2 /\ qop \in TagKeepingClaimed /\ qprev.op \in TagKeepingClaimed
            /\ IsQuantity(Subject(qprev.op, qprev.a, qprev.b))) =>
          qres.unit = Subject(qprev.op, qprev.a, qprev.b).unit
    /\ (qop = "mul" /\ qsteps > 0) =>
          /\ impl_mul(qres.unit, qa.unit, qb.unit) \in MulImpls
          /\ MulOutputs(qa.unit, qb.unit) = {qres.unit}
    /\ (qop = "div" /\ qsteps > 0 /\ IsQuantity(qres)) =>
          /\ impl_div(qres.unit, qa.unit, qb.unit) \in DivImpls
          /\ DivOutputs(qa.unit, qb.unit) = {qres.unit}
    /\ (qsteps > 0 /\ IsQuantity(qres) /\ qres.unit # Subject(qop, qa, qb).unit) =>
          qop \in {"mul", "div"}

\* C16 (amended): same-tag + and -, * and / by a bare Number, * by a float,
\* negation, abs, ceil, floor and round of a quantity of tag U give a quantity
\* of tag U, and so does a sequence of them; a quantity cannot be divided by a
\* float.  The tag of a value differs from the tag of the quantity it was
\* computed from only after a product or quotient of two quantities that an
\* impl of the registry covers, and then it is that impl's output tag, or
\* after to_period, which turns a Frequency into the Time 1 / f, or
\* to_frquency, which turns a Time into the Frequency 1 / t
C16_TagChangesByRuleOrConversion ==
    /\ (qop \in TagKeeping /\ IsQuantity(Subject(qop, qa, qb))) =>
          qres.unit = Subject(qop, qa, qb).unit
    /\ (qsteps = 2 /\ qop \in TagKeeping /\ qprev.op \in TagKeeping
            /\ IsQuantity(Subject(qprev.op, qprev.a, qprev.b))) =>
          qres.unit = Subject(qprev.op, qprev.a, qprev.b).unit
    /\ qop = "div_f64" => (IsQuantity(qa) /\ qres = Unsupported)
    /\ (qop = "mul" /\ qsteps > 0) =>
          /\ impl_mul(qres.unit, qa.unit, qb.unit) \in MulImpls
          /\ MulOutputs(qa.unit, qb.unit) = {qres.unit}
    /\ (qop = "div" /\ qsteps > 0 /\ IsQuantity(qres)) =>
          /\ impl_div(qres.unit, qa.unit, qb.unit) \in DivImpls
          /\ DivOutputs(qa.unit, qb.unit) = {qres.unit}
    /\ qop = "to_period" =>
          /\ qa.unit = "Frequency"
          /\ qres.unit = "Time"
          /\ Normalized(qres.number, F64Div(D(1, 0), to_f64(qa.number)))
    /\ qop = "to_frquency" =>
          /\ qa.unit = "Time"
          /\ qres.unit = "Frequency"
          /\ Normalized(qres.number, F64Div(D(1, 0), to_f64(qa.number)))
    /\ (qsteps > 0 /\ IsQuantity(qres) /\ qres.unit # Subject(qop, qa, qb).unit) =>
          qop \in {"mul", "div", "to_period", "to_frquency"}

\* a Frequency scaled by a Number is a Frequency, and its period is a Time:
\* 12 Hz * 2 Kilo is 24 KHz, of period 41.666666666666664 us
C16_Witness ==
    /\ qsteps = 2
    /\ qprev.op = "mul_number"
    /\ qprev.a.unit = "Frequency"
    /\ qa = UnitNumber("Frequency", new(D(24, 0), "Kilo"))
    /\ qop = "to_period"
    /\ qres.unit = "Time"
    /\ qres.number.suffix = "Micro"

\* the float that a conversion argument stands for
ArgValue(a) == IF a.t = "i32" THEN D(a.i, 0) ELSE a.f

\* C17: constructors do not normalize.  Number::new(m, p) holds exactly
\* (m, p); Number::from(x), UnitNumber::new(x) and UnitNumber::from(x) of a
\* float or an integer x hold mantissa x with prefix None; UnitNumber::new(n)
\* of a Number n holds n; Voltage::new(1e6) has the text "1000000V"
C17_ConstructionKeepsValue ==
    /\ tkind = "Number::new" => tnum = UnitNumber("Number", targ.num)
    /\ tkind = "Number::from" => tnum = UnitNumber("Number", new(ArgValue(targ), "None"))
    /\ (tkind = "UnitNumber::new" /\ targ.t = "num") =>
          IsQuantity(tnum) /\ tnum.number = targ.num
    /\ (tkind \in {"UnitNumber::new", "UnitNumber::from"} /\ targ.t # "num") =>
          IsQuantity(tnum) /\ tnum.number = new(ArgValue(targ), "None")
    /\ (tkind = "uformat" /\ targ = F64Opd(D(1, 6)) /\ tnum.unit = "Voltage") =>
          /\ tnum.number = new(D(1, 6), "None")
          /\ txt = <<"1", "0", "0", "0", "0", "0", "0", "V">>

\* Voltage::new(1e6) formatted: the Number it holds is not the normalized 1 Mega
C17_Witness ==
    /\ tkind = "uformat"
    /\ targ = F64Opd(D(1, 6))
    /\ tnum = UnitNumber("Voltage", new(D(1, 6), "None"))
    /\ ~NormalForm(tnum.number)
    /\ from_f64(D(1, 6)) = new(D(1, 0), "Mega")
    /\ txt = <<"1", "0", "0", "0", "0", "0", "0", "V">>

\* C18: a Number divided by a zero Number or by a zero float is a Number, not
\* an error: an infinity with prefix Giga when the dividend is not zero, NaN
\* with prefix None when the dividend is zero
C18_DivisionByZero ==
    (kind = "div" /\ lhs.t = "num" /\ IsZero(OpdAbs(rhs))) =>
        LET a == to_f64(lhs.num)
        IN  /\ acc.suffix \in Suffix
            /\ (~IsNaN(a) /\ ~IsZero(a)) =>
                  /\ IsInf(acc.value)
                  /\ acc.value.neg = (a.neg # OpdAbs(rhs).neg)
                  /\ acc.suffix = "Giga"
            /\ IsZero(a) => (IsNaN(acc.value) /\ acc.suffix = "None")

\* 3.3 Kilo / 0.0
C18_Witness ==
    /\ kind = "div"
    /\ lhs = NumOpd(new(D(33, -1), "Kilo"))
    /\ rhs = F64Opd(D(0, 0))
    /\ acc = new(Inf(FALSE), "Giga")

Unary == {"neg", "abs", "ceil", "floor", "round"}

\* r is what the float operation op gives on the float v
UnaryResult(op, v, r) ==
    IF ~IsFinite(v) THEN r = (IF op = "abs" /\ IsInf(v) THEN Inf(FALSE) ELSE v)
    ELSE CASE op = "neg"   -> r.m = v.m /\ r.e = v.e /\ r.neg # v.neg
           [] op = "abs"   -> r.m = v.m /\ r.e = v.e /\ ~r.neg
           [] op = "ceil"  -> /\ IsIntegral(r)
                              /\ F64Ge(r, v)
                              /\ F64Lt(F64Sub(r, v), D(1, 0))
           [] op = "floor" -> /\ IsIntegral(r)
                              /\ F64Le(r, v)
                              /\ F64Lt(F64Sub(v, r), D(1, 0))
           [] op = "round" -> /\ IsIntegral(r)
                              /\ F64Le(F64Abs(F64Sub(r, v)), D(5, -1))
                              /\ F64Abs(F64Sub(r, v)) = D(5, -1) =>
                                    F64Ge(F64Abs(r), F64Abs(v))

\* C19: neg, abs, ceil, floor and round of a Number, and of a quantity
\* through the Number it wraps, apply the float operation to the stored
\* mantissa and keep the prefix (and the tag) without normalizing: ceil of
\* 1.5 Kilo is 2 Kilo, round of 999.5 Kilo is 1000 Kilo; neg(neg(x)) is x
C19_UnaryKeepsPrefix ==
    /\ qop \in Unary =>
          /\ qres.unit = qa.unit
          /\ qres.number.suffix = qa.number.suffix
          /\ UnaryResult(qop, qa.number.value, qres.number.value)
    /\ (qop = "ceil" /\ qa.number = new(D(15, -1), "Kilo")) =>
          qres.number = new(D(2, 0), "Kilo")
    /\ (qop = "round" /\ qa.number = new(D(9995, -1), "Kilo")) =>
          qres.number = new(D(1, 3), "Kilo")
    /\ (qop = "floor" /\ qa.number = new(D(-25, -1), "Milli")) =>
          qres.number = new(D(-3, 0), "Milli")
    /\ (qop = "neg" /\ qsteps = 2 /\ qprev.op = "neg") => qres = qprev.a

\* ceil of the bare Number 1.5 Kilo
C19_Witness ==
    /\ qop = "ceil"
    /\ qa = UnitNumber("Number", new(D(15, -1), "Kilo"))
    /\ qres = UnitNumber("Number", new(D(2, 0), "Kilo"))

\* C20: the lookup of the registry is a function: an ordered pair of tags has
\* at most one product tag, an ordered pair of distinct tags has at most one
\* quotient tag, and no division impl has one tag as dividend and divisor, so
\* that the division of two quantities of one tag is the untagged Number only
C20_RegistryIsFunction ==
    /\ \A i \in DivImpls : i.lhs # i.rhs
    /\ qop = "mul" =>
          /\ Cardinality(MulOutputs(qa.unit, qb.unit)) <= 1
          /\ qres = Unsupported <=> MulOutputs(qa.unit, qb.unit) = {}
    /\ (qop = "div" /\ qa.unit # qb.unit) =>
          /\ Cardinality(DivOutputs(qa.unit, qb.unit)) <= 1
          /\ qres = Unsupported <=> DivOutputs(qa.unit, qb.unit) = {}
    /\ (qop = "div" /\ qa.unit = qb.unit) =>
          /\ DivOutputs(qa.unit, qb.unit) = {"Number"}
          /\ qres.unit = "Number"

\* Area / Length is the one registered division whose output is its divisor
C20_Witness ==
    /\ qop = "div"
    /\ qa.unit = "Area"
    /\ qb.unit = "Length"
    /\ DivOutputs("Area", "Length") = {"Length"}
    /\ qres.unit = "Length"

\* C21: the registry is dimensionally sound: for no ordered pair of tags do
\* the product and the quotient resolve to the same tag, and for no pair of
\* distinct tags A, B and tag T do both A / T = B and B / T = A hold
C21_RegistryIsDimensionallySound ==
    /\ qop = "mul" =>
          MulOutputs(qa.unit, qb.unit) \cap DivOutputs(qa.unit, qb.unit) = {}
    /\ (qop = "div" /\ qres.unit \in Units /\ qres.unit # qa.unit) =>
          qa.unit \notin DivOutputs(qres.unit, qb.unit)

\* C22: the text of a quantity of finite mantissa is never accepted under
\* another tag: the parse is an error, the unit-symbol mismatch, or the error
\* of the numeric literal where the symbol of the quantity's tag ends with
\* the symbol of the other tag ("m/s" ends with "s")
C22_TextRejectedUnderOtherTag ==
    tkind = "ucross" =>
        /\ IsFinite(tnum.number.value)
        /\ tunit # tnum.unit
        /\ ~parsed.ok
        /\ IF ends_with(UnitName(tnum.unit), UnitName(tunit))
           THEN \E n \in 1..Len(txt) :
                    parsed = Err(SubSeq(txt, 1, n), <<"invalid float literal">>)
           ELSE parsed.err = <<"Expect end with '">> \o UnitName(tunit) \o <<"'">>

\* 3.3 Km/s read as a Time: the symbol "s" matches and "3.3Km/" is no number
C22_Witness ==
    /\ tkind = "ucross"
    /\ tnum = UnitNumber("Velocity", new(D(33, -1), "Kilo"))
    /\ txt = <<"3", ".", "3", "K", "m", "/", "s">>
    /\ tunit = "Time"
    /\ parsed = Err(<<"3", ".", "3", "K", "m", "/">>, <<"invalid float literal">>)

\* C23: the two lookups of prefix symbols agree: a symbol of PREFIX_TABLE,
\* which Number::from_str takes as a prefix, is taken by Suffix::from_str as
\* the same prefix, and Suffix::from_str(p.name()) is p for every prefix p
C23_PrefixLookupsAgree ==
    /\ tkind = "suffix_from_str" =>
          \A i \in 1..Len(PREFIX_TABLE) :
              txt = PREFIX_TABLE[i][2] =>
                  /\ from_str(<<"1">> \o txt) = Ok(new(D(1, 0), PREFIX_TABLE[i][1]))
                  /\ parsed = SuffixOk(PREFIX_TABLE[i][1])
    /\ tkind = "suffix_name" => parsed = SuffixOk(targ.suffix)

\* C24: a product of two quantities resolves only in the registered order of
\* the operands: where Lhs x Rhs is a registered product of two different
\* tags, Rhs x Lhs has no impl and is unsupported
C24_ProductOnlyInRegisteredOrder ==
    (qop = "mul" /\ qa.unit # qb.unit) =>
        /\ qres.unit \in Units => MulOutputs(qb.unit, qa.unit) = {}
        /\ MulOutputs(qb.unit, qa.unit) # {} => qres = Unsupported

\* Current x Resistance, the swap of Voltage = Resistance x Current
C24_Witness ==
    /\ qop = "mul"
    /\ qa.unit = "Current"
    /\ qb.unit = "Resistance"
    /\ MulOutputs("Resistance", "Current") = {"Voltage"}
    /\ qres = Unsupported

====
